---- MODULE Spec2Model ----
(***************************************************************************)
(* Glass Note (src/script.js, first variant, lines 1-897): the note/link   *)
(* manager's persistence layer.  Two backends (IndexedDB and localStorage) *)
(* behind the useLocalStorageFallback flag, the open request's events, the *)
(* in-flight IndexedDB requests with their completion callbacks, the list  *)
(* queries and the text export/import.                                     *)
(*                                                                         *)
(* Text is a sequence of tokens: a token is one character of user text or  *)
(* one literal fragment the code writes ("Title:", "----------", a         *)
(* scheme).  Timestamps are integers read from the clock `now`; 0 stands   *)
(* for an absent field (undefined, null or the empty string).              *)
(***************************************************************************)
EXTENDS Integers, Sequences, FiniteSets, TLC

\* ------------------------------------------------------------------ bounds
MaxTime == 2
MaxNotes == 2
MaxLinks == 2
MaxPending == 2
MaxReloads == 1
MaxIntervals == 2
\* the number of distinct fractions Date.now() + Math.random() can carry
RandRes == 2
MaxUrlLen == 2
MaxCalls == 2

\* ------------------------------------------------------- program constants
DB_VERSION == 3
NOTES_STORE == "notes"
LINKS_STORE == "links"

Null == 0

\* ------------------------------------------------------------------- text
Lower(c) ==
    IF c = "A" THEN "a" ELSE IF c = "B" THEN "b" ELSE IF c = "C" THEN "c" ELSE c

toLowerCase(s) == [i \in 1..Len(s) |-> Lower(s[i])]

startsWith(s, p) == Len(p) <= Len(s) /\ SubSeq(s, 1, Len(p)) = p

\* the first position at which p occurs in s, 0 when it does not occur
indexOf(s, p) ==
    LET hits == {i \in 1..(Len(s) - Len(p) + 1) : SubSeq(s, i, i + Len(p) - 1) = p}
    IN IF hits = {} THEN 0 ELSE CHOOSE i \in hits : \A j \in hits : i <= j

includes(s, p) == indexOf(s, p) # 0

IsSpace(c) == c \in {" ", "\n"}

RECURSIVE trimStart(_)
trimStart(s) ==
    IF s # <<>> /\ IsSpace(Head(s)) THEN trimStart(Tail(s)) ELSE s

RECURSIVE trimEnd(_)
trimEnd(s) ==
    IF s # <<>> /\ IsSpace(s[Len(s)]) THEN trimEnd(SubSeq(s, 1, Len(s) - 1)) ELSE s

trim(s) == trimEnd(trimStart(s))

\* String.prototype.replace with a string pattern: the first occurrence only
replace(s, p, r) ==
    LET i == indexOf(s, p)
    IN IF i = 0 THEN s
       ELSE SubSeq(s, 1, i - 1) \o r \o SubSeq(s, i + Len(p), Len(s))

\* String.prototype.split with a non-empty separator
RECURSIVE split(_, _)
split(s, sep) ==
    LET i == indexOf(s, sep)
    IN IF i = 0 THEN <<s>>
       ELSE <<SubSeq(s, 1, i - 1)>> \o split(SubSeq(s, i + Len(sep), Len(s)), sep)

\* ------------------------------------------------------------------- urls
Schemes == {"http://", "https://"}
Hosts == {"1.1.1.1"}

isURL(str) ==
    \/ Len(str) = 1 /\ str[1] \in Hosts
    \/ Len(str) = 2 /\ str[1] \in Schemes /\ str[2] \in Hosts

formatURLAlwaysPrepends(url) == <<"http://">> \o url

formatURL(url) ==
    IF ~startsWith(url, <<"http://">>) /\ ~startsWith(url, <<"https://">>)
    THEN <<"http://">> \o url
    ELSE url

\* ---------------------------------------------------------------- records
Note(id, title, content, reminder, createdAt, updatedAt) ==
    [id |-> id, title |-> title, content |-> content, reminder |-> reminder,
     createdAt |-> createdAt, updatedAt |-> updatedAt]

Link(id, title, url, createdAt, updatedAt) ==
    [id |-> id, title |-> title, url |-> url,
     createdAt |-> createdAt, updatedAt |-> updatedAt]

Ids(s) == {s[i].id : i \in 1..Len(s)}

\* the first element of s with the given id (Array.prototype.find by id)
IndexOfId(s, id) ==
    LET hits == {i \in 1..Len(s) : s[i].id = id}
    IN IF hits = {} THEN 0 ELSE CHOOSE i \in hits : \A j \in hits : i <= j

IndexOfUrl(s, url) ==
    LET hits == {i \in 1..Len(s) : s[i].url = url}
    IN IF hits = {} THEN 0 ELSE CHOOSE i \in hits : \A j \in hits : i <= j

\* ------------------------------------------------- localStorage backend
\* note.id = Date.now() + Math.random(): the clock reading and one of the
\* RandRes fractions the sum can carry
GeneratedIds(t) == {t * RandRes + r : r \in 0..(RandRes - 1)}

\* the array written back to 'glassnote_notes'; newId is the generated id
saveNoteToLocalStorage(notes, note, newId, t) ==
    IF note.id # Null
    THEN LET index == IndexOfId(notes, note.id)
         IN IF index # 0 THEN [notes EXCEPT ![index] = note] ELSE notes
    ELSE Append(notes, [note EXCEPT !.id = newId, !.createdAt = t])

\* a faulty variant: notes.splice(notes.findIndex(n => n.id === id), 1), which
\* removes the last note when the id is not found
deleteNoteBySplice(notes, id) ==
    LET index == IndexOfId(notes, id)
    IN IF index # 0
       THEN SubSeq(notes, 1, index - 1) \o SubSeq(notes, index + 1, Len(notes))
       ELSE SubSeq(notes, 1, Len(notes) - 1)

deleteNoteFromLocalStorage(notes, id) ==
    SelectSeq(notes, LAMBDA note : note.id # id)

\* the array written back to 'glassnote_links'
saveLinkToLocalStorage(links, link, newId, t) ==
    IF link.id # Null
    THEN LET index == IndexOfId(links, link.id)
         IN IF index # 0 THEN [links EXCEPT ![index] = link] ELSE links
    ELSE LET existing == IndexOfUrl(links, link.url)
         IN IF existing # 0
            THEN LET found == [link EXCEPT !.id = links[existing].id,
                                           !.createdAt = links[existing].createdAt]
                     index == IndexOfId(links, found.id)
                 IN [links EXCEPT ![index] = found]
            ELSE Append(links, [link EXCEPT !.id = newId, !.createdAt = t])

deleteLinkFromLocalStorage(links, id) ==
    SelectSeq(links, LAMBDA link : link.id # id)

\* updateLink, localStorage branch: the array written back (unchanged when
\* the id is not found)
updateLinkInLocalStorage(links, id, title, url, t) ==
    LET linkIndex == IndexOfId(links, id)
    IN IF linkIndex # 0
       THEN [links EXCEPT ![linkIndex] =
                [@ EXCEPT !.title = title, !.url = formatURL(url), !.updatedAt = t]]
       ELSE links

\* ----------------------------------------------------- IndexedDB backend
\* an object store is the sequence of its records in key order (getAll)
RECURSIVE InsertByKey(_, _)
InsertByKey(store, rec) ==
    IF store = <<>> THEN <<rec>>
    ELSE IF rec.id < Head(store).id THEN <<rec>> \o store
    ELSE <<Head(store)>> \o InsertByKey(Tail(store), rec)

\* IDBObjectStore.put with an in-line key
idbPut(store, rec) ==
    LET index == IndexOfId(store, rec.id)
    IN IF index # 0 THEN [store EXCEPT ![index] = rec] ELSE InsertByKey(store, rec)

\* IDBObjectStore.add on a store with autoIncrement: the key generator's
\* next number becomes the record's id
idbAdd(store, rec, keyGen) == Append(store, [rec EXCEPT !.id = keyGen + 1])

idbDelete(store, id) == SelectSeq(store, LAMBDA rec : rec.id # id)

Max(a, b) == IF a >= b THEN a ELSE b

\* ------------------------------------------------------------ list queries
\* a faulty variant: the filter looks at the title only
matchesTitleOnly(note, query) ==
    includes(toLowerCase(note.title), toLowerCase(query))

matchesQuery(note, query) ==
    LET lowerQuery == toLowerCase(query)
    IN \/ includes(toLowerCase(note.title), lowerQuery)
       \/ includes(toLowerCase(note.content), lowerQuery)

filterNotes(notes, query) ==
    IF query # <<>>
    THEN SelectSeq(notes, LAMBDA note : matchesQuery(note, query))
    ELSE notes

\* a faulty variant: the notes are rendered in the order of the store
keepNoteOrder(notes) == notes

\* notes.sort((a, b) => new Date(b.updatedAt) - new Date(a.updatedAt)):
\* a stable sort, newest first
RECURSIVE sortByUpdatedAt(_)
sortByUpdatedAt(notes) ==
    IF notes = <<>> THEN <<>>
    ELSE LET last == notes[Len(notes)]
             sorted == sortByUpdatedAt(SubSeq(notes, 1, Len(notes) - 1))
             k == Cardinality({i \in 1..Len(sorted) : sorted[i].updatedAt >= last.updatedAt})
         IN SubSeq(sorted, 1, k) \o <<last>> \o SubSeq(sorted, k + 1, Len(sorted))

keepStoreOrder(links) == links

\* links.sort((a, b) => new Date(b.createdAt) - new Date(a.createdAt))
RECURSIVE sortByCreatedAt(_)
sortByCreatedAt(links) ==
    IF links = <<>> THEN <<>>
    ELSE LET last == links[Len(links)]
             sorted == sortByCreatedAt(SubSeq(links, 1, Len(links) - 1))
             k == Cardinality({i \in 1..Len(sorted) : sorted[i].createdAt >= last.createdAt})
         IN SubSeq(sorted, 1, k) \o <<last>> \o SubSeq(sorted, k + 1, Len(sorted))

\* what loadNotes(query) hands to displayNotes
listNotes(notes, query) == sortByUpdatedAt(filterNotes(notes, query))

\* what loadLinks() hands to displayLinks
listLinks(links) == sortByCreatedAt(links)

\* ------------------------------------------------------ export and import
DateString(t) == IF t = 0 THEN "undefined" ELSE ToString(t)

exportSection(note) ==
    <<"----------", "\n", "Title:", " ">> \o note.title
    \o <<"\n", "Content:", " ">> \o note.content
    \o <<"\n", "Reminder:", " ",
         IF note.reminder # 0 THEN ToString(note.reminder) ELSE "None">>
    \o <<"\n", "Created:", " ", DateString(note.createdAt)>>
    \o <<"\n", "Updated:", " ", DateString(note.updatedAt)>>
    \o <<"\n", "----------", "\n">>

RECURSIVE exportSections(_)
exportSections(notes) ==
    IF notes = <<>> THEN <<>>
    ELSE exportSection(Head(notes)) \o exportSections(Tail(notes))

\* the text exportNotes puts in the downloaded file
exportContent(notes, t) ==
    <<"Glass Note Export - ", ToString(t), "\n", "\n">> \o exportSections(notes)

\* content.split('----------\n').filter(s => s.trim() !== '')
noteSections(content) ==
    SelectSeq(split(content, <<"----------", "\n">>), LAMBDA s : trim(s) # <<>>)

FirstLineWith(lines, prefix) ==
    LET hits == {i \in 1..Len(lines) : startsWith(lines[i], prefix)}
    IN IF hits = {} THEN 0 ELSE CHOOSE i \in hits : \A j \in hits : i <= j

\* the title and content importNotes reads from one section: a sequence
\* holding one pair, or no pair when the section is skipped
parseSection(section) ==
    IF startsWith(section, <<"Title:">>)
    THEN LET lines == split(section, <<"\n">>)
             titleLine == FirstLineWith(lines, <<"Title:">>)
             contentLine == FirstLineWith(lines, <<"Content:">>)
         IN IF titleLine # 0 /\ contentLine # 0
            THEN <<[title |-> trim(replace(lines[titleLine], <<"Title:", " ">>, <<>>)),
                    content |-> trim(replace(lines[contentLine], <<"Content:", " ">>, <<>>))]>>
            ELSE <<>>
    ELSE <<>>

RECURSIVE parseSections(_)
parseSections(sections) ==
    IF sections = <<>> THEN <<>>
    ELSE parseSection(Head(sections)) \o parseSections(Tail(sections))

\* the (title, content) pairs importNotes hands to the save path, in order
importedPairs(content) == parseSections(noteSections(content))

\* importNotes, localStorage branch: saveNoteToLocalStorage for every pair;
\* ids[i] is the id generated for the i-th pair
RECURSIVE importToLocalStorage(_, _, _, _)
importToLocalStorage(notes, pairs, ids, t) ==
    IF pairs = <<>> THEN notes
    ELSE importToLocalStorage(
            saveNoteToLocalStorage(notes,
                Note(Null, Head(pairs).title, Head(pairs).content, 0, 0, t),
                Head(ids), t),
            Tail(pairs), Tail(ids), t)

\* ------------------------------------------------------------------- state
VARIABLES
    profile,                    \* the inputs and events this run draws from (fixed at Init)
    now,                        \* the clock, in minutes
    idbVersion,                 \* the stored version of GlassNoteDB, 0 when it does not exist
    idbStores,                  \* its object stores and their indexes
    idbNotes,                   \* the records of the "notes" store, in key order
    idbLinks,                   \* the records of the "links" store, in key order
    noteKeyGen,                 \* the key generator of "notes"
    linkKeyGen,                 \* the key generator of "links"
    lsNotes,                    \* localStorage 'glassnote_notes'
    lsLinks,                    \* localStorage 'glassnote_links'
    exportFile,                 \* the last downloaded export, <<>> when there is none
    reloads,                    \* page loads so far
    openReq,                    \* the indexedDB.open request
    deleteReq,                  \* the indexedDB.deleteDatabase request
    db,                         \* the connection: "undefined", "open" or "closed"
    dbInitialized,
    useLocalStorageFallback,
    resolved,                   \* initDB's promise is settled and its then-handler has run
    reloadTimer,                \* a window.location.reload() is scheduled
    currentNoteId,
    currentLinkId,
    searchInput,                \* searchInput.value
    pending,                    \* the in-flight IndexedDB requests, oldest first
    notesListEl,                \* the notes displayNotes last rendered
    linksListEl,                \* the links displayLinks last rendered
    toast,                      \* the last showToast
    intervals,                  \* the setInterval(checkReminders, 60000) timers registered
    uncaught,                   \* a handler of this page load ended in an uncaught exception
    deletedNoteIds              \* history: the (store, id) of every Note deleted so far

schemaVars == <<idbVersion, idbStores>>
idbData == <<idbNotes, idbLinks, noteKeyGen, linkKeyGen>>
lsData == <<lsNotes, lsLinks>>
initVars == <<openReq, deleteReq, db, dbInitialized, useLocalStorageFallback, resolved, reloadTimer>>
selection == <<currentNoteId, currentLinkId>>
view == <<notesListEl, linksListEl>>

vars == <<profile, deletedNoteIds, now, idbVersion, idbStores, idbNotes, idbLinks, noteKeyGen, linkKeyGen,
          lsNotes, lsLinks, exportFile, reloads, openReq, deleteReq, db,
          dbInitialized, useLocalStorageFallback, resolved, reloadTimer,
          currentNoteId, currentLinkId, searchInput, pending, notesListEl,
          linksListEl, toast, intervals, uncaught>>

\* ------------------------------------------------------------------ inputs
\* A run draws its inputs and its environment's events from one profile:
\*   "notes"    note texts, reminders and searches
\*   "links"    urls
\*   "codec"    note texts, export and import
\*   "session"  one note text and one url; connection loss, failing
\*              requests and page reloads
\*   "race"     one note text and one url; several requests in flight
Profiles == {"notes", "links", "codec", "import", "session", "race", "order", "remind"}

\* the title and content fields a save reads, before trimming
FormInputs ==
    IF profile = "notes"
    THEN { <<  <<"a">>,  <<"b", "\n">>  >>,
           <<  <<"C">>,  <<"a">>  >>,
           <<  <<>>,     <<>>  >> }
    ELSE IF profile = "codec"
    THEN { <<  <<"a">>,  <<"b", "\n">>  >>,
           <<  <<"B">>,  <<"a", "\n", "b">>  >> }
    ELSE IF profile = "links"
    THEN { <<  <<"a">>,  <<"1.1.1.1">>  >>,
           <<  <<"B">>,  <<"http://", "1.1.1.1">>  >>,
           <<  <<>>,     <<"https://", "1.1.1.1">>  >> }
    ELSE IF profile \in {"order", "import", "remind"}
    THEN { <<  <<"a">>,  <<"b">>  >> }
    ELSE { <<  <<"a">>,  <<"b">>  >>,
           <<  <<"a">>,  <<"1.1.1.1">>  >> }

\* the reminder field: empty, or a time
ReminderInputs ==
    IF profile = "notes" THEN {0, 1}
    ELSE IF profile = "remind" THEN {0} \cup 2..(MaxTime + 1)
    ELSE {0}

\* the search field
Queries == IF profile = "notes" THEN { <<>>, <<"A">>, <<"c">> } ELSE { <<>> }

TimeLimit == IF profile \in {"notes", "links", "order", "remind"} THEN MaxTime ELSE 1
PendingLimit == IF profile \in {"race", "order"} THEN MaxPending ELSE 1
NotesLimit == IF profile \in {"session", "order", "remind"} THEN 1 ELSE MaxNotes
LinksLimit == IF profile = "session" THEN 1 ELSE MaxLinks
Faults == profile \in {"session", "remind"}
Exports == profile = "codec"
Remembers == profile = "order"

\* a toast is kept as its type
Toast(type, message) == type
NoToast == Toast("none", "")

\* the stores and indexes onupgradeneeded creates
NotesSchema == {"notes", "notes.title", "notes.updatedAt", "notes.reminder"}
LinksSchema == {"links", "links.url", "links.createdAt"}

\* the schema an earlier release left behind (version 2)
OldSchema == {"notes", "notes.title", "notes.updatedAt",
              "links", "links.url", "links.createdAt"}

Init ==
    /\ profile \in Profiles
    /\ now = 1
    /\ idbVersion \in (IF profile = "session" THEN {0, 2} ELSE {2})
    /\ idbStores = IF idbVersion = 0 THEN {} ELSE OldSchema
    /\ idbNotes = <<>> /\ idbLinks = <<>>
    /\ noteKeyGen = 0 /\ linkKeyGen = 0
    /\ lsNotes = <<>> /\ lsLinks = <<>>
    /\ exportFile = <<>>
    /\ reloads = 0
    /\ openReq = "none" /\ deleteReq = "none" /\ db = "undefined"
    /\ dbInitialized = FALSE /\ useLocalStorageFallback = FALSE
    /\ resolved = FALSE /\ reloadTimer = FALSE
    /\ currentNoteId = Null /\ currentLinkId = Null
    /\ searchInput = <<>>
    /\ pending = <<>>
    /\ notesListEl = <<>> /\ linksListEl = <<>>
    /\ toast = NoToast
    /\ intervals = 0
    /\ uncaught = FALSE
    /\ deletedNoteIds = {}

\* ---------------------------------------------------------------- requests
Request(kind, store, id, title, text, reminder, createdAt, updatedAt) ==
    [kind |-> kind, store |-> store, id |-> id, title |-> title, text |-> text,
     reminder |-> reminder, createdAt |-> createdAt, updatedAt |-> updatedAt]

ReadNotes(kind, id, text) == Request(kind, NOTES_STORE, id, <<>>, text, 0, 0, 0)
ReadLinks(kind, id) == Request(kind, LINKS_STORE, id, <<>>, <<>>, 0, 0, 0)

WriteKinds == {"saveNotePut", "saveNoteAdd", "saveLink", "saveLinkPut", "saveLinkAdd",
               "updateLink", "deleteItem"}

CanRunInAnyOrder(i) == TRUE

CanRunLookupsUnlocked(i) ==
    \A j \in 1..(i - 1) :
        \/ pending[j].store # pending[i].store
        \/ (pending[j].kind \notin WriteKinds /\ pending[i].kind \notin WriteKinds)
        \/ pending[i].kind = "saveLink"

\* a transaction starts once no earlier transaction with an overlapping
\* scope is still running, unless both are read-only
CanRun(i) ==
    \A j \in 1..(i - 1) :
        \/ pending[j].store # pending[i].store
        \/ (pending[j].kind \notin WriteKinds /\ pending[i].kind \notin WriteKinds)

Remove(q, i) == SubSeq(q, 1, i - 1) \o SubSeq(q, i + 1, Len(q))

PendingAdds(kind) == Cardinality({i \in 1..Len(pending) : pending[i].kind = kind})

\* loadNotes(query), IndexedDB branch: the request it issues, if any
loadNotesRequest(initialized, query) ==
    IF initialized THEN <<ReadNotes("loadNotes", Null, query)>> ELSE <<>>

\* loadLinks(), IndexedDB branch
loadLinksRequest(initialized) ==
    IF initialized THEN <<ReadLinks("loadLinks", Null)>> ELSE <<>>

\* the notes checkReminders announces at time t
ReminderWindow == 1
dueOrPastReminders(notes, t) ==
    {i \in 1..Len(notes) :
        /\ notes[i].reminder # 0
        /\ notes[i].reminder <= t + ReminderWindow}

dueReminders(notes, t) ==
    {i \in 1..Len(notes) :
        /\ notes[i].reminder # 0
        /\ notes[i].reminder > t
        /\ notes[i].reminder <= t + ReminderWindow}

reminderToast(notes, t, old) ==
    IF dueReminders(notes, t) # {} THEN Toast("info", "Recordatorio") ELSE old

\* ------------------------------------------------------------------ initDB
\* the then-handler of initDB(): setupEventListeners, loadNotes, loadLinks,
\* checkReminders, with the localStorage backend selected
ThenFlat ==
    /\ notesListEl' = listNotes(lsNotes, searchInput)
    /\ linksListEl' = listLinks(lsLinks)
    /\ toast' = reminderToast(lsNotes, now, toast)
    /\ UNCHANGED <<pending, intervals>>

\* the same handler with the IndexedDB backend selected
ThenIdb ==
    /\ pending' = pending \o <<ReadNotes("loadNotes", Null, <<>>),
                               ReadLinks("loadLinks", Null),
                               ReadNotes("checkReminders", Null, <<>>)>>
    /\ intervals' = IF intervals < MaxIntervals THEN intervals + 1 ELSE intervals
    /\ UNCHANGED <<notesListEl, linksListEl, toast>>

\* resolve() after useLocalStorageFallback = true
ResolveFlat ==
    /\ resolved' = TRUE
    /\ IF resolved
       THEN UNCHANGED <<notesListEl, linksListEl, toast, pending, intervals>>
       ELSE ThenFlat

InitDBUnsupported ==
    /\ openReq = "none"
    /\ openReq' = "unsupported"
    /\ useLocalStorageFallback' = TRUE
    /\ ResolveFlat
    /\ UNCHANGED <<profile, deletedNoteIds, now, schemaVars, idbData, lsData, exportFile, reloads, deleteReq, db,
                   dbInitialized, reloadTimer, selection, searchInput, uncaught>>

InitDBOpen ==
    /\ openReq = "none"
    /\ openReq' = "pending"
    /\ UNCHANGED <<profile, deletedNoteIds, now, schemaVars, idbData, lsData, exportFile, reloads, deleteReq, db,
                   dbInitialized, useLocalStorageFallback, resolved, reloadTimer,
                   selection, searchInput, pending, view, toast, intervals, uncaught>>

\* request.onblocked: another tab keeps the old version open
OnBlocked ==
    /\ openReq = "pending"
    /\ 0 < idbVersion /\ idbVersion < DB_VERSION
    /\ openReq' = "blocked"
    /\ useLocalStorageFallback' = TRUE
    /\ ResolveFlat
    /\ UNCHANGED <<profile, deletedNoteIds, now, schemaVars, idbData, lsData, exportFile, reloads, deleteReq, db,
                   dbInitialized, reloadTimer, selection, searchInput, uncaught>>

upgradedStores(stores) ==
    stores
    \cup (IF NOTES_STORE \notin stores THEN NotesSchema ELSE {})
    \cup (IF LINKS_STORE \notin stores THEN LinksSchema ELSE {})

OnUpgradeNeeded ==
    /\ openReq \in {"pending", "blocked"}
    /\ idbVersion < DB_VERSION
    /\ openReq' = "upgraded"
    /\ db' = "open"
    /\ idbStores' = upgradedStores(idbStores)
    /\ idbVersion' = DB_VERSION
    /\ UNCHANGED <<profile, deletedNoteIds, now, idbData, lsData, exportFile, reloads, deleteReq,
                   dbInitialized, useLocalStorageFallback, resolved, reloadTimer,
                   selection, searchInput, pending, view, toast, intervals, uncaught>>

\* request.onerror with event.target.error.name === 'UnknownError'
OnErrorUnknown ==
    /\ openReq \in {"pending", "blocked"}
    /\ openReq' = "failed"
    /\ deleteReq' = "pending"
    /\ UNCHANGED <<profile, deletedNoteIds, now, schemaVars, idbData, lsData, exportFile, reloads, db,
                   dbInitialized, useLocalStorageFallback, resolved, reloadTimer,
                   selection, searchInput, pending, view, toast, intervals, uncaught>>

\* request.onerror with any other error
OnErrorOther ==
    /\ openReq \in {"pending", "blocked"}
    /\ openReq' = "failed"
    /\ useLocalStorageFallback' = TRUE
    /\ ResolveFlat
    /\ UNCHANGED <<profile, deletedNoteIds, now, schemaVars, idbData, lsData, exportFile, reloads, deleteReq, db,
                   dbInitialized, reloadTimer, selection, searchInput, uncaught>>

\* deleteReq.onsuccess: the database is gone, a reload is scheduled
DeleteReqSuccess ==
    /\ deleteReq = "pending"
    /\ deleteReq' = "done"
    /\ idbVersion' = 0 /\ idbStores' = {}
    /\ idbNotes' = <<>> /\ idbLinks' = <<>>
    /\ noteKeyGen' = 0 /\ linkKeyGen' = 0
    /\ toast' = Toast("warning", "Base de datos corrompida")
    /\ reloadTimer' = TRUE
    /\ UNCHANGED <<profile, deletedNoteIds, now, lsData, exportFile, reloads, openReq, db, dbInitialized,
                   useLocalStorageFallback, resolved, selection, searchInput,
                   pending, view, intervals, uncaught>>

\* a faulty variant: deleteReq.onerror without the fallback and the resolve()
DeleteReqErrorGivesUp ==
    /\ deleteReq = "pending"
    /\ deleteReq' = "failed"
    /\ UNCHANGED <<profile, deletedNoteIds, now, schemaVars, idbData, lsData, exportFile, reloads, openReq, db,
                   dbInitialized, useLocalStorageFallback, resolved, reloadTimer,
                   selection, searchInput, pending, view, toast, intervals, uncaught>>

DeleteReqError ==
    /\ deleteReq = "pending"
    /\ deleteReq' = "failed"
    /\ useLocalStorageFallback' = TRUE
    /\ ResolveFlat
    /\ UNCHANGED <<profile, deletedNoteIds, now, schemaVars, idbData, lsData, exportFile, reloads, openReq, db,
                   dbInitialized, reloadTimer, selection, searchInput, uncaught>>

\* request.onsuccess with no connection in event.target.result
OnSuccessNoDb ==
    /\ openReq \in {"pending", "upgraded"}
    /\ idbVersion = DB_VERSION
    /\ openReq' = "done"
    /\ db' = "undefined"
    /\ useLocalStorageFallback' = TRUE
    /\ ResolveFlat
    /\ UNCHANGED <<profile, deletedNoteIds, now, schemaVars, idbData, lsData, exportFile, reloads, deleteReq,
                   dbInitialized, reloadTimer, selection, searchInput, uncaught>>

\* a faulty variant: request.onsuccess with a connection switches back to
\* IndexedDB
OnSuccessSelectsIdb ==
    /\ openReq \in {"pending", "upgraded"}
    /\ idbVersion = DB_VERSION
    /\ openReq' = "done"
    /\ db' = "open"
    /\ dbInitialized' = TRUE
    /\ useLocalStorageFallback' = FALSE
    /\ resolved' = TRUE
    /\ IF resolved
       THEN UNCHANGED <<notesListEl, linksListEl, toast, pending, intervals>>
       ELSE ThenIdb
    /\ UNCHANGED <<profile, deletedNoteIds, now, schemaVars, idbData, lsData, exportFile, reloads, deleteReq,
                   reloadTimer, selection, searchInput, uncaught>>

\* request.onsuccess with a connection
OnSuccess ==
    /\ openReq \in {"pending", "upgraded"}
    /\ idbVersion = DB_VERSION
    /\ openReq' = "done"
    /\ db' = "open"
    /\ dbInitialized' = TRUE
    /\ resolved' = TRUE
    /\ IF resolved
       THEN UNCHANGED <<notesListEl, linksListEl, toast, pending, intervals>>
       ELSE IF useLocalStorageFallback THEN ThenFlat ELSE ThenIdb
    /\ UNCHANGED <<profile, deletedNoteIds, now, schemaVars, idbData, lsData, exportFile, reloads, deleteReq,
                   useLocalStorageFallback, reloadTimer, selection, searchInput, uncaught>>

DbCloseSelectsFlat ==
    /\ Faults
    /\ openReq = "done" /\ db = "open"
    /\ db' = "closed"
    /\ dbInitialized' = FALSE
    /\ useLocalStorageFallback' = TRUE
    /\ pending' = <<>>
    /\ toast' = Toast("warning", "Conexion cerrada")
    /\ UNCHANGED <<profile, deletedNoteIds, now, schemaVars, idbData, lsData, exportFile, reloads, openReq,
                   deleteReq, resolved, reloadTimer, selection,
                   searchInput, view, intervals, uncaught>>

\* db.onclose: the connection was closed abnormally; its transactions abort
DbClose ==
    /\ Faults
    /\ openReq = "done" /\ db = "open"
    /\ db' = "closed"
    /\ dbInitialized' = FALSE
    /\ pending' = <<>>
    /\ toast' = Toast("warning", "Conexion cerrada")
    /\ reloadTimer' = TRUE
    /\ UNCHANGED <<profile, deletedNoteIds, now, schemaVars, idbData, lsData, exportFile, reloads, openReq,
                   deleteReq, useLocalStorageFallback, resolved, selection,
                   searchInput, view, intervals, uncaught>>

\* db.onversionchange: db.close(); the running transactions still finish
DbVersionChange ==
    /\ Faults
    /\ openReq = "done" /\ db = "open"
    /\ db' = "closed"
    /\ dbInitialized' = FALSE
    /\ toast' = Toast("info", "Base de datos actualizada")
    /\ reloadTimer' = TRUE
    /\ UNCHANGED <<profile, deletedNoteIds, now, schemaVars, idbData, lsData, exportFile, reloads, openReq,
                   deleteReq, useLocalStorageFallback, resolved, selection,
                   searchInput, pending, view, intervals, uncaught>>

\* window.location.reload(): the page's state starts over, the stores stay
Reload ==
    /\ reloadTimer
    /\ reloads < MaxReloads
    /\ reloads' = reloads + 1
    /\ openReq' = "none" /\ deleteReq' = "none" /\ db' = "undefined"
    /\ dbInitialized' = FALSE /\ useLocalStorageFallback' = FALSE
    /\ resolved' = FALSE /\ reloadTimer' = FALSE
    /\ currentNoteId' = Null /\ currentLinkId' = Null
    /\ searchInput' = <<>>
    /\ pending' = <<>>
    /\ notesListEl' = <<>> /\ linksListEl' = <<>>
    /\ toast' = NoToast
    /\ intervals' = 0
    /\ uncaught' = FALSE
    /\ UNCHANGED <<profile, deletedNoteIds, now, schemaVars, idbData, lsData, exportFile>>

Tick ==
    /\ now < TimeLimit
    /\ now' = now + 1
    /\ UNCHANGED <<profile, deletedNoteIds, schemaVars, idbData, lsData, exportFile, reloads, initVars, selection,
                   searchInput, pending, view, toast, intervals, uncaught>>

\* what a delete of id adds to the history: the id, when store holds it
deletedFrom(store, notes, id) ==
    IF Remembers /\ IndexOfId(notes, id) # 0 THEN {<<store, id>>} ELSE {}

\* ------------------------------------------------------------ user actions
\* a faulty variant: the listeners are set up when the page loads
ListeningAtLoad == TRUE

\* the listeners exist once the then-handler has run
Listening == resolved

\* the model takes a user action that issues requests while fewer than
\* PendingLimit requests are in flight
CanIssue == Len(pending) < PendingLimit

\* createNewNote(), from the "new note" button
CreateNewNote ==
    /\ Listening
    /\ currentNoteId' = Null /\ currentLinkId' = Null
    /\ UNCHANGED <<profile, deletedNoteIds, now, schemaVars, idbData, lsData, exportFile, reloads, initVars,
                   searchInput, pending, view, toast, intervals, uncaught>>

\* saveNoteOrLink() before the database is initialized
SaveNotInitialized ==
    /\ Listening
    /\ ~dbInitialized
    /\ toast' = Toast("danger", "Base de datos no inicializada")
    /\ UNCHANGED <<profile, deletedNoteIds, now, schemaVars, idbData, lsData, exportFile, reloads, initVars,
                   selection, searchInput, pending, view, intervals, uncaught>>

\* saveNoteOrLink() with an empty title and an empty content
SaveEmpty ==
    /\ Listening
    /\ dbInitialized
    /\ \E input \in FormInputs :
        /\ trim(input[1]) = <<>> /\ trim(input[2]) = <<>>
        /\ toast' = Toast("warning", "La nota o el enlace no puede estar vacio")
    /\ UNCHANGED <<profile, deletedNoteIds, now, schemaVars, idbData, lsData, exportFile, reloads, initVars,
                   selection, searchInput, pending, view, intervals, uncaught>>

\* saveNoteOrLink() -> saveNote(title || 'Sin titulo', content), localStorage
SaveNoteFlat ==
    /\ Listening
    /\ dbInitialized /\ useLocalStorageFallback
    /\ currentLinkId = Null
    /\ \E input \in FormInputs, reminder \in ReminderInputs, newId \in GeneratedIds(now) :
        LET title == trim(input[1])
            content == trim(input[2])
            note == Note(currentNoteId, IF title # <<>> THEN title ELSE <<"Sin titulo">>,
                         content, reminder, 0, now)
        IN /\ ~(title = <<>> /\ content = <<>>)
           /\ ~isURL(content)
           /\ currentNoteId = Null => Len(lsNotes) < NotesLimit
           /\ lsNotes' = saveNoteToLocalStorage(lsNotes, note, newId, now)
           /\ currentNoteId' = IF currentNoteId = Null THEN newId ELSE currentNoteId
           /\ notesListEl' = listNotes(lsNotes', <<>>)
    /\ toast' = Toast("success", "Nota guardada correctamente")
    /\ UNCHANGED <<profile, deletedNoteIds, now, schemaVars, idbData, lsLinks, exportFile, reloads, initVars,
                   currentLinkId, searchInput, pending, linksListEl, intervals, uncaught>>

\* saveNoteOrLink() -> saveNote(title || 'Sin titulo', content), IndexedDB
SaveNoteIdb ==
    /\ Listening
    /\ dbInitialized /\ ~useLocalStorageFallback
    /\ currentLinkId = Null
    /\ CanIssue
    /\ \E input \in FormInputs, reminder \in ReminderInputs :
        LET title == trim(input[1])
            content == trim(input[2])
            shown == IF title # <<>> THEN title ELSE <<"Sin titulo">>
        IN /\ ~(title = <<>> /\ content = <<>>)
           /\ ~isURL(content)
           /\ IF currentNoteId # Null
              THEN pending' = Append(pending,
                       Request("saveNotePut", NOTES_STORE, currentNoteId, shown, content,
                               reminder, 0, now))
              ELSE /\ noteKeyGen + PendingAdds("saveNoteAdd") < NotesLimit
                   /\ pending' = Append(pending,
                          Request("saveNoteAdd", NOTES_STORE, Null, shown, content,
                                  reminder, now, now))
    /\ UNCHANGED <<profile, deletedNoteIds, now, schemaVars, idbData, lsData, exportFile, reloads, initVars,
                   selection, searchInput, view, toast, intervals, uncaught>>

\* saveNoteOrLink() -> saveLink(title || 'Enlace sin titulo', content), localStorage
\* input is what the form holds, newId the id generated for a new link
SaveLinkFlatWith(input, newId) ==
    /\ Listening
    /\ dbInitialized /\ useLocalStorageFallback
    /\ currentLinkId = Null
    /\ LET title == trim(input[1])
           content == trim(input[2])
           link == Link(Null, IF title # <<>> THEN title ELSE <<"Enlace sin titulo">>,
                        formatURL(content), 0, now)
       IN /\ isURL(content)
          /\ IndexOfUrl(lsLinks, link.url) = 0 => Len(lsLinks) < LinksLimit
          /\ lsLinks' = saveLinkToLocalStorage(lsLinks, link, newId, now)
          /\ linksListEl' = listLinks(lsLinks')
    /\ currentNoteId' = Null /\ currentLinkId' = Null
    /\ toast' = Toast("success", "Enlace guardado correctamente")
    /\ UNCHANGED <<profile, deletedNoteIds, now, schemaVars, idbData, lsNotes, exportFile, reloads, initVars,
                   searchInput, pending, notesListEl, intervals, uncaught>>

SaveLinkFlat ==
    \E input \in FormInputs, newId \in GeneratedIds(now) : SaveLinkFlatWith(input, newId)

\* saveNoteOrLink() -> saveLink(...), IndexedDB: the url lookup is issued
SaveLinkIdb ==
    /\ Listening
    /\ dbInitialized /\ ~useLocalStorageFallback
    /\ currentLinkId = Null
    /\ CanIssue
    /\ linkKeyGen + PendingAdds("saveLink") + PendingAdds("saveLinkAdd") < LinksLimit
    /\ \E input \in FormInputs :
        LET title == trim(input[1])
            content == trim(input[2])
        IN /\ isURL(content)
           /\ pending' = Append(pending,
                  Request("saveLink", LINKS_STORE, Null,
                          IF title # <<>> THEN title ELSE <<"Enlace sin titulo">>,
                          formatURL(content), 0, 0, 0))
    /\ UNCHANGED <<profile, deletedNoteIds, now, schemaVars, idbData, lsData, exportFile, reloads, initVars,
                   selection, searchInput, view, toast, intervals, uncaught>>

\* saveNoteOrLink() -> updateLink(currentLinkId, title, content), localStorage
UpdateLinkFlat ==
    /\ Listening
    /\ dbInitialized /\ useLocalStorageFallback
    /\ currentLinkId # Null
    /\ \E input \in FormInputs :
        LET title == trim(input[1])
            content == trim(input[2])
        IN /\ ~(title = <<>> /\ content = <<>>)
           /\ IF IndexOfId(lsLinks, currentLinkId) # 0
              THEN /\ lsLinks' = updateLinkInLocalStorage(lsLinks, currentLinkId, title,
                                                         content, now)
                   /\ currentNoteId' = Null /\ currentLinkId' = Null
                   /\ linksListEl' = listLinks(lsLinks')
                   /\ toast' = Toast("success", "Enlace actualizado correctamente")
              ELSE UNCHANGED <<lsLinks, selection, linksListEl, toast>>
    /\ UNCHANGED <<profile, deletedNoteIds, now, schemaVars, idbData, lsNotes, exportFile, reloads, initVars,
                   searchInput, pending, notesListEl, intervals, uncaught>>

\* saveNoteOrLink() -> updateLink(currentLinkId, title, content), IndexedDB
UpdateLinkIdb ==
    /\ Listening
    /\ dbInitialized /\ ~useLocalStorageFallback
    /\ currentLinkId # Null
    /\ CanIssue
    /\ \E input \in FormInputs :
        LET title == trim(input[1])
            content == trim(input[2])
        IN /\ ~(title = <<>> /\ content = <<>>)
           /\ pending' = Append(pending,
                  Request("updateLink", LINKS_STORE, currentLinkId, title, content, 0, 0, 0))
    /\ UNCHANGED <<profile, deletedNoteIds, now, schemaVars, idbData, lsData, exportFile, reloads, initVars,
                   selection, searchInput, view, toast, intervals, uncaught>>

DeleteLinkFlatDeletes ==
    /\ Listening
    /\ currentLinkId # Null
    /\ useLocalStorageFallback
    /\ lsLinks' = deleteLinkFromLocalStorage(lsLinks, currentLinkId)
    /\ currentNoteId' = Null /\ currentLinkId' = Null
    /\ linksListEl' = listLinks(lsLinks')
    /\ toast' = Toast("success", "Enlace eliminado")
    /\ UNCHANGED <<profile, deletedNoteIds, now, schemaVars, idbData, lsNotes, exportFile, reloads, initVars,
                   searchInput, pending, notesListEl, intervals, uncaught>>

\* deleteNoteOrLink() with a link open, localStorage: not available
DeleteLinkFlat ==
    /\ Listening
    /\ currentLinkId # Null
    /\ useLocalStorageFallback
    /\ toast' = Toast("warning", "Eliminar enlaces no esta disponible en modo de respaldo")
    /\ UNCHANGED <<profile, deletedNoteIds, now, schemaVars, idbData, lsData, exportFile, reloads, initVars,
                   selection, searchInput, pending, view, intervals, uncaught>>

\* deleteNoteOrLink() with a note open, localStorage
DeleteNoteFlat ==
    /\ Listening
    /\ currentLinkId = Null /\ currentNoteId # Null
    /\ useLocalStorageFallback
    /\ lsNotes' = deleteNoteFromLocalStorage(lsNotes, currentNoteId)
    /\ deletedNoteIds' = deletedNoteIds \cup deletedFrom("localStorage", lsNotes, currentNoteId)
    /\ currentNoteId' = Null /\ currentLinkId' = Null
    /\ notesListEl' = listNotes(lsNotes', <<>>)
    /\ toast' = Toast("success", "Nota eliminada")
    /\ UNCHANGED <<profile, now, schemaVars, idbData, lsLinks, exportFile, reloads, initVars,
                   searchInput, pending, linksListEl, intervals, uncaught>>

\* deleteNoteOrLink() -> deleteItem(store, id, ...), IndexedDB, confirmed;
\* db.transaction throws once the connection is closed
DeleteItemIdb ==
    /\ Listening
    /\ ~useLocalStorageFallback
    /\ currentLinkId # Null \/ currentNoteId # Null
    /\ IF db = "open"
       THEN /\ CanIssue
            /\ pending' = Append(pending,
                   IF currentLinkId # Null
                   THEN Request("deleteItem", LINKS_STORE, currentLinkId, <<>>, <<>>, 0, 0, 0)
                   ELSE Request("deleteItem", NOTES_STORE, currentNoteId, <<>>, <<>>, 0, 0, 0))
            /\ UNCHANGED uncaught
       ELSE /\ uncaught' = TRUE
            /\ UNCHANGED pending
    /\ UNCHANGED <<profile, deletedNoteIds, now, schemaVars, idbData, lsData, exportFile, reloads, initVars,
                   selection, searchInput, view, toast, intervals>>

\* deleteNoteOrLink() with nothing open
DeleteNothing ==
    /\ Listening
    /\ currentLinkId = Null /\ currentNoteId = Null
    /\ toast' = Toast("warning", "No hay nada seleccionado para eliminar")
    /\ UNCHANGED <<profile, deletedNoteIds, now, schemaVars, idbData, lsData, exportFile, reloads, initVars,
                   selection, searchInput, pending, view, intervals, uncaught>>

\* the search field's input event: loadNotes(searchInput.value)
Search ==
    /\ Listening
    /\ \E query \in Queries :
        /\ searchInput' = query
        /\ IF useLocalStorageFallback
           THEN /\ notesListEl' = listNotes(lsNotes, query)
                /\ UNCHANGED pending
           ELSE /\ dbInitialized => CanIssue
                /\ pending' = pending \o loadNotesRequest(dbInitialized, query)
                /\ UNCHANGED notesListEl
    /\ UNCHANGED <<profile, deletedNoteIds, now, schemaVars, idbData, lsData, exportFile, reloads, initVars,
                   selection, linksListEl, toast, intervals, uncaught>>

\* a click on a rendered note: loadNote(note.id), localStorage
LoadNoteFlat ==
    /\ Listening
    /\ useLocalStorageFallback
    /\ \E id \in Ids(notesListEl) :
        IF IndexOfId(lsNotes, id) # 0
        THEN currentNoteId' = id /\ currentLinkId' = Null
        ELSE UNCHANGED selection
    /\ UNCHANGED <<profile, deletedNoteIds, now, schemaVars, idbData, lsData, exportFile, reloads, initVars,
                   searchInput, pending, view, toast, intervals, uncaught>>

\* loadNote(note.id), IndexedDB
LoadNoteIdb ==
    /\ Listening
    /\ ~useLocalStorageFallback
    /\ \E id \in Ids(notesListEl) :
        IF db = "open"
        THEN /\ CanIssue
             /\ pending' = Append(pending, ReadNotes("loadNote", id, <<>>))
             /\ UNCHANGED uncaught
        ELSE /\ uncaught' = TRUE
             /\ UNCHANGED pending
    /\ UNCHANGED <<profile, deletedNoteIds, now, schemaVars, idbData, lsData, exportFile, reloads, initVars,
                   selection, searchInput, view, toast, intervals>>

\* a click on a rendered link's edit button: editLink(link.id), localStorage
EditLinkFlat ==
    /\ Listening
    /\ useLocalStorageFallback
    /\ \E id \in Ids(linksListEl) :
        IF IndexOfId(lsLinks, id) # 0
        THEN /\ currentLinkId' = id /\ currentNoteId' = Null
             /\ toast' = Toast("info", "Editando enlace")
        ELSE UNCHANGED <<selection, toast>>
    /\ UNCHANGED <<profile, deletedNoteIds, now, schemaVars, idbData, lsData, exportFile, reloads, initVars,
                   searchInput, pending, view, intervals, uncaught>>

\* editLink(link.id), IndexedDB
EditLinkIdb ==
    /\ Listening
    /\ ~useLocalStorageFallback
    /\ \E id \in Ids(linksListEl) :
        IF db = "open"
        THEN /\ CanIssue
             /\ pending' = Append(pending, ReadLinks("editLink", id))
             /\ UNCHANGED uncaught
        ELSE /\ uncaught' = TRUE
             /\ UNCHANGED pending
    /\ UNCHANGED <<profile, deletedNoteIds, now, schemaVars, idbData, lsData, exportFile, reloads, initVars,
                   selection, searchInput, view, toast, intervals>>

\* exportNotes(), localStorage
ExportNotesFlat ==
    /\ Exports
    /\ Listening
    /\ useLocalStorageFallback
    /\ IF lsNotes = <<>>
       THEN /\ toast' = Toast("warning", "No hay notas para exportar")
            /\ UNCHANGED exportFile
       ELSE /\ exportFile' = exportContent(lsNotes, now)
            /\ toast' = Toast("success", "Notas exportadas")
    /\ UNCHANGED <<profile, deletedNoteIds, now, schemaVars, idbData, lsData, reloads, initVars, selection,
                   searchInput, pending, view, intervals, uncaught>>

\* exportNotes(), IndexedDB
ExportNotesIdb ==
    /\ Exports
    /\ Listening
    /\ ~useLocalStorageFallback
    /\ IF db = "open"
       THEN /\ CanIssue
            /\ pending' = Append(pending, ReadNotes("exportNotes", Null, <<>>))
            /\ UNCHANGED uncaught
       ELSE /\ uncaught' = TRUE
            /\ UNCHANGED pending
    /\ UNCHANGED <<profile, deletedNoteIds, now, schemaVars, idbData, lsData, exportFile, reloads, initVars,
                   selection, searchInput, view, toast, intervals>>

\* a file written by an encrypting export: the envelope
\* {"encrypted":true,"data":"..."}, one token with no section in it
EncryptedExport == <<"{encrypted}">>

\* a file in the export format, written by hand, whose one section has
\* nothing after "Title: " and nothing after "Content: "
EmptyNoteFile ==
    <<"----------", "\n", "Title:", " ", "\n", "Content:", " ", "\n", "----------", "\n">>

\* a file cut off after the title line of its only section
TruncatedFile == <<"----------", "\n", "Title:", " ", "a", "\n">>

\* files made outside the application
ForeignFiles ==
    IF profile = "import" THEN {EncryptedExport, EmptyNoteFile, TruncatedFile} ELSE {}

\* the files the user can pick for an import
ImportFiles == (IF exportFile = <<>> THEN {} ELSE {exportFile}) \cup ForeignFiles

ImportedToast == Toast("success", "Importadas notas")

\* importNotes(), reader.onload, localStorage
ImportNotesFlatOf(content) ==
    /\ Listening
    /\ useLocalStorageFallback
    /\ LET pairs == importedPairs(content)
       IN /\ Len(lsNotes) + Len(pairs) <= NotesLimit
          /\ \E ids \in [1..Len(pairs) -> GeneratedIds(now)] :
               lsNotes' = importToLocalStorage(lsNotes, pairs, ids, now)
          /\ notesListEl' = listNotes(lsNotes', <<>>)
    /\ toast' = ImportedToast
    /\ UNCHANGED <<profile, deletedNoteIds, now, schemaVars, idbData, lsLinks, exportFile, reloads, initVars,
                   selection, searchInput, pending, linksListEl, intervals, uncaught>>

ImportNotesFlat == \E content \in ImportFiles : ImportNotesFlatOf(content)

\* the requests of one saveNote(title, content) call per imported pair
RECURSIVE importRequests(_, _, _, _)
importRequests(pairs, noteId, reminder, t) ==
    IF pairs = <<>> THEN <<>>
    ELSE <<IF noteId # Null
           THEN Request("saveNotePut", NOTES_STORE, noteId, Head(pairs).title,
                        Head(pairs).content, reminder, 0, t)
           ELSE Request("saveNoteAdd", NOTES_STORE, Null, Head(pairs).title,
                        Head(pairs).content, reminder, t, t)>>
         \o importRequests(Tail(pairs), noteId, reminder, t)

\* importNotes(), reader.onload, IndexedDB: saveNote throws inside the try
\* block once the connection is closed
ImportNotesIdbOf(content, reminder) ==
    /\ Listening
    /\ ~useLocalStorageFallback
    /\ LET pairs == importedPairs(content)
       IN IF db = "open" \/ pairs = <<>>
          THEN /\ CanIssue
               /\ currentNoteId = Null =>
                     noteKeyGen + PendingAdds("saveNoteAdd") + Len(pairs) <= NotesLimit
               /\ pending' = pending \o importRequests(pairs, currentNoteId, reminder, now)
               /\ toast' = ImportedToast
          ELSE /\ toast' = Toast("danger", "Error al importar notas")
               /\ UNCHANGED pending
    /\ UNCHANGED <<profile, deletedNoteIds, now, schemaVars, idbData, lsData, exportFile, reloads, initVars,
                   selection, searchInput, view, intervals, uncaught>>

ImportNotesIdb ==
    \E content \in ImportFiles, reminder \in ReminderInputs :
        ImportNotesIdbOf(content, reminder)

\* a 60-second interval fires: checkReminders()
ScanTick ==
    /\ intervals > 0
    /\ IF useLocalStorageFallback
       THEN /\ toast' = reminderToast(lsNotes, now, toast)
            /\ notesListEl' = listNotes(lsNotes, searchInput)
            /\ UNCHANGED <<pending, intervals, uncaught>>
       ELSE IF db = "open"
       THEN /\ CanIssue
            /\ pending' = Append(pending, ReadNotes("checkReminders", Null, <<>>))
            /\ intervals' = IF intervals < MaxIntervals THEN intervals + 1 ELSE intervals
            /\ UNCHANGED <<toast, notesListEl, uncaught>>
       ELSE /\ uncaught' = TRUE
            /\ UNCHANGED <<toast, notesListEl, pending, intervals>>
    /\ UNCHANGED <<profile, deletedNoteIds, now, schemaVars, idbData, lsData, exportFile, reloads, initVars,
                   selection, searchInput, linksListEl>>

\* ------------------------------------------------- request completions
Runnable(i, kind) == i \in 1..Len(pending) /\ pending[i].kind = kind /\ CanRun(i)

\* loadNotes: request.onsuccess
LoadNotesDoneAt(i) ==
        /\ Runnable(i, "loadNotes")
        /\ notesListEl' = listNotes(idbNotes, pending[i].text)
        /\ pending' = Remove(pending, i)
        /\ UNCHANGED <<profile, deletedNoteIds, now, schemaVars, idbData, lsData, exportFile, reloads, initVars,
                       selection, searchInput, linksListEl, toast, intervals, uncaught>>

LoadNotesDone == \E i \in 1..Len(pending) : LoadNotesDoneAt(i)

\* loadLinks: request.onsuccess
LoadLinksDone ==
    \E i \in 1..Len(pending) :
        /\ Runnable(i, "loadLinks")
        /\ linksListEl' = listLinks(idbLinks)
        /\ pending' = Remove(pending, i)
        /\ UNCHANGED <<profile, deletedNoteIds, now, schemaVars, idbData, lsData, exportFile, reloads, initVars,
                       selection, searchInput, notesListEl, toast, intervals, uncaught>>

\* the record objectStore.put(note) / objectStore.add(note) stores for a request
noteOf(req) ==
    Note(req.id, req.title, req.text, req.reminder, req.createdAt, req.updatedAt)

\* saveNote: objectStore.put(note) and request.onsuccess
SaveNotePutDone ==
    \E i \in 1..Len(pending) :
        /\ Runnable(i, "saveNotePut")
        /\ idbNotes' = idbPut(idbNotes, noteOf(pending[i]))
        /\ noteKeyGen' = Max(noteKeyGen, pending[i].id)
        /\ currentNoteId' = IF currentNoteId = Null THEN pending[i].id ELSE currentNoteId
        /\ pending' = Remove(pending, i) \o loadNotesRequest(dbInitialized, <<>>)
        /\ toast' = Toast("success", "Nota guardada correctamente")
        /\ UNCHANGED <<profile, deletedNoteIds, now, schemaVars, idbLinks, linkKeyGen, lsData, exportFile, reloads,
                       initVars, currentLinkId, searchInput, view, intervals, uncaught>>

\* saveNote: objectStore.add(note) and request.onsuccess
SaveNoteAddDone ==
    \E i \in 1..Len(pending) :
        /\ Runnable(i, "saveNoteAdd")
        /\ idbNotes' = idbAdd(idbNotes, noteOf(pending[i]), noteKeyGen)
        /\ noteKeyGen' = noteKeyGen + 1
        /\ currentNoteId' = IF currentNoteId = Null THEN noteKeyGen + 1 ELSE currentNoteId
        /\ pending' = Remove(pending, i) \o loadNotesRequest(dbInitialized, <<>>)
        /\ toast' = Toast("success", "Nota guardada correctamente")
        /\ UNCHANGED <<profile, deletedNoteIds, now, schemaVars, idbLinks, linkKeyGen, lsData, exportFile, reloads,
                       initVars, currentLinkId, searchInput, view, intervals, uncaught>>

\* saveLink, getRequest.onsuccess: the put or add request it places in the
\* same transaction, for the record built from the lookup by url
saveLinkWrite(links, req, t) ==
    LET existing == IndexOfUrl(links, req.text)
    IN IF existing # 0
       THEN Request("saveLinkPut", LINKS_STORE, links[existing].id, req.title, req.text,
                    0, links[existing].createdAt, t)
       ELSE Request("saveLinkAdd", LINKS_STORE, Null, req.title, req.text, 0, t, t)

\* saveLink: getRequest.onsuccess; the transaction stays open for the write
SaveLinkLookupAt(i) ==
        /\ Runnable(i, "saveLink")
        /\ pending' = [pending EXCEPT ![i] = saveLinkWrite(idbLinks, pending[i], now)]
        /\ UNCHANGED <<profile, deletedNoteIds, now, schemaVars, idbData, lsData, exportFile, reloads, initVars,
                       selection, searchInput, view, toast, intervals, uncaught>>

SaveLinkLookup == \E i \in 1..Len(pending) : SaveLinkLookupAt(i)

SaveLinkWrites == {"saveLinkPut", "saveLinkAdd"}

\* the record objectStore.put(link) / objectStore.add(link) stores for a request
linkOf(req) == Link(req.id, req.title, req.text, req.createdAt, req.updatedAt)

\* the unique index on url rejects a write that would give two records one url
violatesUniqueUrl(links, link) ==
    \E j \in 1..Len(links) : links[j].id # link.id /\ links[j].url = link.url

\* saveLink: the put or add and its request.onsuccess or request.onerror
SaveLinkDoneAt(i) ==
        /\ i \in 1..Len(pending) /\ pending[i].kind \in SaveLinkWrites /\ CanRun(i)
        /\ IF violatesUniqueUrl(idbLinks, linkOf(pending[i]))
           THEN /\ pending' = Remove(pending, i)
                /\ toast' = Toast("danger", "Error al guardar el enlace")
                /\ UNCHANGED <<idbLinks, linkKeyGen, selection>>
           ELSE /\ idbLinks' = IF pending[i].kind = "saveLinkPut"
                               THEN idbPut(idbLinks, linkOf(pending[i]))
                               ELSE idbAdd(idbLinks, linkOf(pending[i]), linkKeyGen)
                /\ linkKeyGen' = IF pending[i].kind = "saveLinkPut"
                                 THEN linkKeyGen ELSE linkKeyGen + 1
                /\ pending' = Remove(pending, i) \o loadLinksRequest(dbInitialized)
                /\ currentNoteId' = Null /\ currentLinkId' = Null
                /\ toast' = Toast("success", "Enlace guardado correctamente")
        /\ UNCHANGED <<profile, deletedNoteIds, now, schemaVars, idbNotes, noteKeyGen, lsData, exportFile, reloads,
                       initVars, searchInput, view, intervals, uncaught>>

SaveLinkDone == \E i \in 1..Len(pending) : SaveLinkDoneAt(i)

\* a faulty variant: the url is stored as typed
updatedLinkRawUrl(link, title, url, t) ==
    [link EXCEPT !.title = title, !.url = url, !.updatedAt = t]

\* the record updateLink's request.onsuccess puts back
updatedLink(link, title, url, t) ==
    [link EXCEPT !.title = title, !.url = formatURL(url), !.updatedAt = t]

\* updateLink: request.onsuccess, objectStore.put(link), its onsuccess or onerror
UpdateLinkDone ==
    \E i \in 1..Len(pending) :
        /\ Runnable(i, "updateLink")
        /\ LET index == IndexOfId(idbLinks, pending[i].id)
               link == updatedLink(idbLinks[index], pending[i].title, pending[i].text, now)
           IN IF index = 0
              THEN /\ pending' = Remove(pending, i)
                   /\ UNCHANGED <<idbLinks, selection, toast>>
              ELSE IF violatesUniqueUrl(idbLinks, link)
              THEN /\ pending' = Remove(pending, i)
                   /\ toast' = Toast("danger", "Error al actualizar el enlace")
                   /\ UNCHANGED <<idbLinks, selection>>
              ELSE /\ idbLinks' = idbPut(idbLinks, link)
                   /\ currentNoteId' = Null /\ currentLinkId' = Null
                   /\ pending' = Remove(pending, i) \o loadLinksRequest(dbInitialized)
                   /\ toast' = Toast("success", "Enlace actualizado correctamente")
        /\ UNCHANGED <<profile, deletedNoteIds, now, schemaVars, idbNotes, noteKeyGen, linkKeyGen, lsData, exportFile,
                       reloads, initVars, searchInput, view, intervals, uncaught>>

\* deleteItem: objectStore.delete(id) and request.onsuccess
DeleteItemDoneAt(i) ==
        /\ Runnable(i, "deleteItem")
        /\ IF pending[i].store = NOTES_STORE
           THEN /\ idbNotes' = idbDelete(idbNotes, pending[i].id)
                /\ deletedNoteIds' =
                      deletedNoteIds \cup deletedFrom("indexedDB", idbNotes, pending[i].id)
                /\ pending' = Remove(pending, i) \o loadNotesRequest(dbInitialized, <<>>)
                /\ toast' = Toast("success", "Nota eliminada")
                /\ UNCHANGED idbLinks
           ELSE /\ idbLinks' = idbDelete(idbLinks, pending[i].id)
                /\ pending' = Remove(pending, i) \o loadLinksRequest(dbInitialized)
                /\ toast' = Toast("success", "Enlace eliminado")
                /\ UNCHANGED <<idbNotes, deletedNoteIds>>
        /\ currentNoteId' = Null /\ currentLinkId' = Null
        /\ UNCHANGED <<profile, now, schemaVars, noteKeyGen, linkKeyGen, lsData, exportFile, reloads,
                       initVars, searchInput, view, intervals, uncaught>>

DeleteItemDone == \E i \in 1..Len(pending) : DeleteItemDoneAt(i)

\* loadNote: request.onsuccess
LoadNoteDone ==
    \E i \in 1..Len(pending) :
        /\ Runnable(i, "loadNote")
        /\ IF IndexOfId(idbNotes, pending[i].id) # 0
           THEN currentNoteId' = pending[i].id /\ currentLinkId' = Null
           ELSE UNCHANGED selection
        /\ pending' = Remove(pending, i)
        /\ UNCHANGED <<profile, deletedNoteIds, now, schemaVars, idbData, lsData, exportFile, reloads, initVars,
                       searchInput, view, toast, intervals, uncaught>>

\* editLink: request.onsuccess
EditLinkDone ==
    \E i \in 1..Len(pending) :
        /\ Runnable(i, "editLink")
        /\ IF IndexOfId(idbLinks, pending[i].id) # 0
           THEN /\ currentLinkId' = pending[i].id /\ currentNoteId' = Null
                /\ toast' = Toast("info", "Editando enlace")
           ELSE UNCHANGED <<selection, toast>>
        /\ pending' = Remove(pending, i)
        /\ UNCHANGED <<profile, deletedNoteIds, now, schemaVars, idbData, lsData, exportFile, reloads, initVars,
                       searchInput, view, intervals, uncaught>>

\* checkReminders: request.onsuccess
CheckRemindersDone ==
    \E i \in 1..Len(pending) :
        /\ Runnable(i, "checkReminders")
        /\ toast' = reminderToast(idbNotes, now, toast)
        /\ pending' = Remove(pending, i) \o loadNotesRequest(dbInitialized, searchInput)
        /\ UNCHANGED <<profile, deletedNoteIds, now, schemaVars, idbData, lsData, exportFile, reloads, initVars,
                       selection, searchInput, view, intervals, uncaught>>

\* exportNotes: request.onsuccess
ExportNotesDone ==
    \E i \in 1..Len(pending) :
        /\ Runnable(i, "exportNotes")
        /\ IF idbNotes = <<>>
           THEN /\ toast' = Toast("warning", "No hay notas para exportar")
                /\ UNCHANGED exportFile
           ELSE /\ exportFile' = exportContent(idbNotes, now)
                /\ toast' = Toast("success", "Notas exportadas")
        /\ pending' = Remove(pending, i)
        /\ UNCHANGED <<profile, deletedNoteIds, now, schemaVars, idbData, lsData, reloads, initVars, selection,
                       searchInput, view, intervals, uncaught>>

\* a write request fails (quota, an aborted transaction): request.onerror
errorToast(req) ==
    IF req.kind \in {"saveNotePut", "saveNoteAdd"} THEN Toast("danger", "Error al guardar la nota")
    ELSE IF req.kind \in {"saveLinkPut", "saveLinkAdd"}
    THEN Toast("danger", "Error al guardar el enlace")
    ELSE IF req.kind = "updateLink" THEN Toast("danger", "Error al actualizar el enlace")
    ELSE Toast("danger", "Error al eliminar")

\* a faulty variant: the error callback clears the form as the success
\* callback does
RequestErrorClearsForm ==
    \E i \in 1..Len(pending) :
        /\ Faults
        /\ pending[i].kind \in WriteKinds \ {"saveLink"}
        /\ CanRun(i)
        /\ toast' = errorToast(pending[i])
        /\ pending' = Remove(pending, i)
        /\ currentNoteId' = Null /\ currentLinkId' = Null
        /\ UNCHANGED <<profile, deletedNoteIds, now, schemaVars, idbData, lsData, exportFile, reloads, initVars,
                       searchInput, view, intervals, uncaught>>

RequestError ==
    \E i \in 1..Len(pending) :
        /\ Faults
        /\ pending[i].kind \in WriteKinds \ {"saveLink"}
        /\ CanRun(i)
        /\ toast' = errorToast(pending[i])
        /\ pending' = Remove(pending, i)
        /\ UNCHANGED <<profile, deletedNoteIds, now, schemaVars, idbData, lsData, exportFile, reloads, initVars,
                       selection, searchInput, view, intervals, uncaught>>

\* ------------------------------------------------------------ specification
Next ==
    \/ InitDBUnsupported \/ InitDBOpen \/ OnBlocked \/ OnUpgradeNeeded
    \/ OnErrorUnknown \/ OnErrorOther \/ DeleteReqSuccess \/ DeleteReqError
    \/ OnSuccessNoDb \/ OnSuccess \/ DbClose \/ DbVersionChange \/ Reload \/ Tick
    \/ CreateNewNote \/ SaveNotInitialized \/ SaveEmpty
    \/ SaveNoteFlat \/ SaveNoteIdb \/ SaveLinkFlat \/ SaveLinkIdb
    \/ UpdateLinkFlat \/ UpdateLinkIdb
    \/ DeleteLinkFlat \/ DeleteNoteFlat \/ DeleteItemIdb \/ DeleteNothing
    \/ Search \/ LoadNoteFlat \/ LoadNoteIdb \/ EditLinkFlat \/ EditLinkIdb
    \/ ExportNotesFlat \/ ExportNotesIdb \/ ImportNotesFlat \/ ImportNotesIdb
    \/ ScanTick
    \/ LoadNotesDone \/ LoadLinksDone \/ SaveNotePutDone \/ SaveNoteAddDone
    \/ SaveLinkLookup \/ SaveLinkDone \/ UpdateLinkDone \/ DeleteItemDone \/ LoadNoteDone
    \/ EditLinkDone \/ CheckRemindersDone \/ ExportNotesDone \/ RequestError

Spec == Init /\ [][Next]_vars

\* ------------------------------------------------------------- properties
\* C1: in either backend, a Note that stays persisted under its id keeps the
\* createdAt it had: no step (a later save on the update path included)
\* changes the createdAt stored under an id.
CreatedAtImmutable ==
    [][/\ \A i \in 1..Len(lsNotes), j \in 1..Len(lsNotes') :
            lsNotes[i].id = lsNotes'[j].id => lsNotes'[j].createdAt = lsNotes[i].createdAt
       /\ \A i \in 1..Len(idbNotes), j \in 1..Len(idbNotes') :
            idbNotes[i].id = idbNotes'[j].id => idbNotes'[j].createdAt = idbNotes[i].createdAt
      ]_vars

\* the effect C2 asks of saveLink(title, url) on a store that holds the url
UpsertInPlace(old, new, title, url, t) ==
    (\E k \in 1..Len(old) : old[k].url = url) =>
        /\ Len(new) = Len(old)
        /\ \A k \in 1..Len(old) :
              old[k].url = url =>
                  /\ new[k].id = old[k].id
                  /\ new[k].createdAt = old[k].createdAt
                  /\ new[k].title = title
                  /\ new[k].updatedAt = t

TitleOrDefault(input) ==
    IF trim(input[1]) # <<>> THEN trim(input[1]) ELSE <<"Enlace sin titulo">>

\* C2: in either backend, saveLink(title, url) with a normalized url that a
\* persisted Link already has updates that Link in place: the number of
\* Links is unchanged, the Link keeps its id and createdAt, and its title
\* and updatedAt take the new values.
SaveLinkUpsertsByUrl ==
    [][/\ \A input \in FormInputs, newId \in GeneratedIds(now) :
            SaveLinkFlatWith(input, newId) =>
                UpsertInPlace(lsLinks, lsLinks', TitleOrDefault(input),
                              formatURL(trim(input[2])), now)
       /\ \A i \in 1..Len(pending) :
            SaveLinkDoneAt(i) =>
                UpsertInPlace(idbLinks, idbLinks', pending[i].title, pending[i].text,
                              pending[i].updatedAt)
      ]_vars

DistinctUrls(links) ==
    \A i, j \in 1..Len(links) : i # j => links[i].url # links[j].url

\* C3: in every reachable state of either backend no two persisted Links
\* have the same url.
LinkUrlsUnique == DistinctUrls(lsLinks) /\ DistinctUrls(idbLinks)

DistinctIds(notes) ==
    \A i, j \in 1..Len(notes) : i # j => notes[i].id # notes[j].id

\* C4: in every reachable state of either backend any two distinct
\* persisted Notes have distinct ids.
NoteIdsUnique == DistinctIds(lsNotes) /\ DistinctIds(idbNotes)

PastDue(note, t) == note.reminder # 0 /\ note.reminder < t

\* C5: every list of notes the program renders places every Note whose
\* reminder is set and earlier than the current time before every Note
\* without a past-due reminder, whatever their updatedAt.
PastDueFirst ==
    [][notesListEl' # notesListEl =>
          \A i, j \in 1..Len(notesListEl') :
              (PastDue(notesListEl'[i], now') /\ ~PastDue(notesListEl'[j], now')) => i < j
      ]_vars

SameLetter(c, d) ==
    c = d \/ {c, d} \in {{"a", "A"}, {"b", "B"}, {"c", "C"}}

\* q occurs in text as a substring, letter case ignored
ContainsIgnoringCase(text, q) ==
    \E k \in 0..(Len(text) - Len(q)) :
        \A m \in 1..Len(q) : SameLetter(text[k + m], q[m])

Matching(notes, q) ==
    {i \in 1..Len(notes) :
        ContainsIgnoringCase(notes[i].title, q) \/ ContainsIgnoringCase(notes[i].content, q)}

\* list holds exactly the notes of the store that match q, each once
ExactlyMatching(list, notes, q) ==
    /\ Len(list) = Cardinality(Matching(notes, q))
    /\ \A i \in Matching(notes, q) : \E j \in 1..Len(list) : list[j] = notes[i]
    /\ \A j \in 1..Len(list) : \E i \in Matching(notes, q) : list[j] = notes[i]

\* C6: in either backend, a search for q renders exactly the Notes whose
\* title or content contains q as a case-insensitive substring: every
\* persisted Note for the empty query, none for a query that matches no
\* title and no content.
SearchListsExactlyMatching ==
    [][/\ (Search /\ useLocalStorageFallback) =>
            ExactlyMatching(notesListEl', lsNotes, searchInput')
       /\ \A i \in 1..Len(pending) :
            LoadNotesDoneAt(i) => ExactlyMatching(notesListEl', idbNotes, pending[i].text)
      ]_vars

\* a search has left one of two persisted notes in the list
SearchFiltered ==
    /\ searchInput = <<"c">>
    /\ pending = <<>>
    /\ Len(notesListEl) = 1
    /\ notesListEl[1].title = <<"C">>
    /\ Len(IF useLocalStorageFallback THEN lsNotes ELSE idbNotes) = 2

\* the ids a delete can be asked for
IdSpace == 1..((TimeLimit + 1) * RandRes)

\* C7: in either backend, deleting an id the store does not hold changes
\* neither the Note nor the Link collection and raises no error.
DeleteMissingIsNoOp ==
    [][/\ \A id \in IdSpace \ Ids(lsNotes) :
            deleteNoteFromLocalStorage(lsNotes, id) = lsNotes
       /\ \A id \in IdSpace \ Ids(lsLinks) :
            deleteLinkFromLocalStorage(lsLinks, id) = lsLinks
       /\ \A i \in 1..Len(pending) :
            (/\ DeleteItemDoneAt(i)
             /\ pending[i].id \notin Ids(IF pending[i].store = NOTES_STORE
                                         THEN idbNotes ELSE idbLinks)) =>
                /\ UNCHANGED <<idbNotes, idbLinks, lsNotes, lsLinks, uncaught>>
                /\ toast' # errorToast(pending[i])
      ]_vars

\* a delete is in flight for a note an earlier delete has removed, while
\* another note is persisted
DeleteOfMissingNote ==
    /\ idbNotes # <<>>
    /\ \E i \in 1..Len(pending) :
          /\ Runnable(i, "deleteItem")
          /\ pending[i].store = NOTES_STORE
          /\ pending[i].id \notin Ids(idbNotes)

\* the open failed: no support, an error, blocked, or no connection
OpenFailed ==
    \/ openReq \in {"unsupported", "blocked", "failed"}
    \/ openReq = "done" /\ db = "undefined"

\* C8 as stated: once the open has failed and no answer of initDB is
\* outstanding, initDB() has completed with the localStorage backend selected.
InitFailureSelectsFlat ==
    (OpenFailed /\ deleteReq # "pending") => (resolved /\ useLocalStorageFallback)

\* C8, amended: that holds unless the open failed with an UnknownError and
\* deleting the database succeeded; then a reload is scheduled and initDB()
\* completes only if it had completed before the error (by a blocked event).
InitFailureSelectsFlatOrReloads ==
    /\ (OpenFailed /\ deleteReq \in {"none", "failed"}) =>
            (resolved /\ useLocalStorageFallback)
    /\ deleteReq = "done" => (reloadTimer /\ (resolved <=> useLocalStorageFallback))

\* the open failed with an UnknownError, deleting the database failed too,
\* and initDB() completed with localStorage selected
FallbackAfterDeleteFailed ==
    /\ openReq = "failed" /\ deleteReq = "failed"
    /\ resolved /\ useLocalStorageFallback

\* C9: once useLocalStorageFallback is true it stays true for the rest of
\* the page load, and no step other than an answer to initDB's own requests
\* issues a request to IndexedDB or changes what it holds.
FallbackIsPermanent ==
    [][(useLocalStorageFallback /\ reloads' = reloads) =>
          /\ useLocalStorageFallback'
          /\ (openReq' = openReq /\ deleteReq' = deleteReq) =>
                /\ pending = <<>> /\ pending' = <<>>
                /\ UNCHANGED <<idbVersion, idbStores, idbNotes, idbLinks,
                               noteKeyGen, linkKeyGen>>
      ]_vars

\* localStorage is selected, the IndexedDB connection is open all the same,
\* and a note has been saved
FlatInUseBesideOpenDb ==
    /\ useLocalStorageFallback /\ dbInitialized /\ db = "open"
    /\ lsNotes # <<>>
    /\ idbNotes = <<>>

\* every note of exported has a note of imported with its title and content
Reproduces(imported, exported) ==
    \A i \in 1..Len(exported) :
        \E j \in 1..Len(imported) :
            /\ imported[j].title = exported[i].title
            /\ imported[j].content = exported[i].content

\* the notes an import of content leaves in an empty localStorage
importedIntoEmptyFlat(content, t) ==
    LET pairs == importedPairs(content)
    IN importToLocalStorage(<<>>, pairs, [k \in 1..Len(pairs) |-> t * RandRes + k], t)

\* the notes an import of content adds to an empty IndexedDB store
importedIntoEmptyIdb(content, t) ==
    LET requests == importRequests(importedPairs(content), Null, 0, t)
    IN [k \in 1..Len(requests) |-> [noteOf(requests[k]) EXCEPT !.id = k]]

\* C10: the file an export writes, imported into an empty store, gives for
\* every exported Note a Note with the same title and the same content.
ExportImportRoundTrip ==
    [][exportFile' # exportFile =>
          IF useLocalStorageFallback
          THEN Reproduces(importedIntoEmptyFlat(exportFile', now), lsNotes)
          ELSE Reproduces(importedIntoEmptyIdb(exportFile', now), idbNotes)
      ]_vars

\* C11: importing an encrypted export with an incorrect password fails with
\* a failure the user sees and leaves the Note collection untouched.  The
\* importer never asks for a password, so every password is incorrect.
ImportedEncrypted ==
    \E reminder \in ReminderInputs :
        \/ ImportNotesFlatOf(EncryptedExport)
        \/ ImportNotesIdbOf(EncryptedExport, reminder)

WrongPasswordImportFails ==
    [][ImportedEncrypted =>
          /\ toast' \in {Toast("danger", "decryption failed"),
                         Toast("warning", "decryption failed")}
          /\ UNCHANGED <<lsNotes, idbNotes, pending>>
      ]_vars

\* C12: under a clock that never goes backwards, a save of a Note leaves it
\* with an updatedAt no smaller than the one it had, in either backend.
\* localStorage keeps notes by position, IndexedDB by key.
UpdatedAtMonotone ==
    [][/\ (lsNotes' # lsNotes /\ Len(lsNotes') >= Len(lsNotes)) =>
             \A k \in 1..Len(lsNotes) :
                lsNotes'[k].id = lsNotes[k].id =>
                    lsNotes'[k].updatedAt >= lsNotes[k].updatedAt
       /\ idbNotes' # idbNotes =>
             \A i \in 1..Len(idbNotes), j \in 1..Len(idbNotes') :
                idbNotes'[j].id = idbNotes[i].id =>
                    idbNotes'[j].updatedAt >= idbNotes[i].updatedAt
      ]_vars

\* a Note saved again after the clock moved on, with a later save of it
\* still in flight
SavedAgainLater ==
    /\ \E k \in 1..Len(idbNotes) :
          idbNotes[k].createdAt = 0 /\ idbNotes[k].updatedAt > 1
    /\ \E i \in 1..Len(pending) : pending[i].kind = "saveNotePut"

\* C13: in every reachable state at most one of currentNoteId and
\* currentLinkId is non-null.
OneOpenItem == currentNoteId = Null \/ currentLinkId = Null

\* the delete button: deleteNoteOrLink(), whichever branch it takes
DeleteCurrent == DeleteLinkFlat \/ DeleteNoteFlat \/ DeleteItemIdb \/ DeleteNothing

\* C14: while the flat backend is active, a delete-current request issued
\* with a Link open leaves the persisted links and the selection unchanged
\* and shows a warning instead of deleting.
FlatLinkDeleteOnlyWarns ==
    [][(DeleteCurrent /\ useLocalStorageFallback /\ currentLinkId # Null) =>
          /\ UNCHANGED <<lsLinks, idbLinks, pending, currentNoteId, currentLinkId>>
          /\ toast' = Toast("warning", "Eliminar enlaces no esta disponible")
      ]_vars

\* the warning is up with the Link still open and still stored; saves of
\* links raise no warning
FlatLinkDeleteRefused ==
    /\ profile = "links"
    /\ useLocalStorageFallback
    /\ toast = Toast("warning", "Eliminar enlaces no esta disponible")
    /\ currentLinkId # Null
    /\ IndexOfId(lsLinks, currentLinkId) # 0

\* C15: in either backend the reminder scan runs at startup and then every
\* 60 seconds for the rest of the session.  A scan can only recur while a
\* setInterval timer for checkReminders exists, so once initialization has
\* completed such a timer is registered.
ScannerKeepsRunning == resolved => intervals > 0

\* the pieces url texts are made of: the two schemes formatURL knows, the
\* same scheme in capitals, another scheme, a host, a word
UrlTokens == {"http://", "https://", "HTTP://", "ftp://", "1.1.1.1", "a"}

\* every text of at most MaxUrlLen pieces, and what the form can hold
UrlTexts ==
    UNION {[1..n -> UrlTokens] : n \in 0..MaxUrlLen}
        \cup {trim(input[2]) : input \in FormInputs}

HasScheme(u) == startsWith(u, <<"http://">>) \/ startsWith(u, <<"https://">>)

\* C16: formatURL returns its input unchanged when it starts with http://
\* or https://, and otherwise the input with http:// prepended; its result
\* always carries a scheme and formatURL(formatURL(u)) = formatURL(u).
\* The texts do not depend on the stores, so they are tried in the states
\* of the sessions that save links.
FormatURLAddsSchemeOnce ==
    profile = "links" =>
        \A u \in UrlTexts :
            /\ HasScheme(u) => formatURL(u) = u
            /\ ~HasScheme(u) => formatURL(u) = <<"http://">> \o u
            /\ HasScheme(formatURL(u))
            /\ formatURL(formatURL(u)) = formatURL(u)

\* saveLink has stored one Link typed without a scheme and one typed with it
FormattedLinksStored ==
    \E input, other \in FormInputs :
        /\ ~HasScheme(trim(input[2])) /\ HasScheme(trim(other[2]))
        /\ \E k \in 1..Len(lsLinks) :
              /\ lsLinks[k].title = trim(input[1])
              /\ lsLinks[k].url = formatURL(trim(input[2]))
        /\ \E k \in 1..Len(lsLinks) :
              /\ lsLinks[k].title = trim(other[1])
              /\ lsLinks[k].url = formatURL(trim(other[2]))

\* how often x occurs in seq
Count(seq, x) == Cardinality({i \in 1..Len(seq) : seq[i] = x})

\* list holds exactly the links of store, newest createdAt first
FullByCreatedAtDesc(list, store) ==
    /\ Len(list) = Len(store)
    /\ \A k \in 1..Len(store) : Count(list, store[k]) = Count(store, store[k])
    /\ \A i, j \in 1..Len(list) : i < j => list[i].createdAt >= list[j].createdAt

\* C17: in either backend listLinks returns every persisted Link, with no
\* filtering, ordered by createdAt descending.  localStorage is listed in
\* the step that writes it, IndexedDB when the getAll request answers.
ListLinksFullAndSorted ==
    [][(\/ LoadLinksDone
        \/ useLocalStorageFallback' /\ lsLinks' # lsLinks
        \/ linksListEl' # linksListEl /\ reloads' = reloads) =>
          IF useLocalStorageFallback'
          THEN FullByCreatedAtDesc(linksListEl', lsLinks')
          ELSE FullByCreatedAtDesc(linksListEl', idbLinks)
      ]_vars

\* two links created at different times are listed, the newer first, in
\* the reverse of the order they are stored in
LinksListedNewestFirst ==
    /\ Len(linksListEl) = 2
    /\ linksListEl[1].createdAt > linksListEl[2].createdAt
    /\ \/ lsLinks = <<linksListEl[2], linksListEl[1]>>
       \/ idbLinks = <<linksListEl[2], linksListEl[1]>>

\* C18: in every reachable state no persisted Note has both an empty title
\* and an empty content.
EmptyNote(note) == note.title = <<>> /\ note.content = <<>>

NoEmptyNote ==
    /\ \A k \in 1..Len(lsNotes) : ~EmptyNote(lsNotes[k])
    /\ \A k \in 1..Len(idbNotes) : ~EmptyNote(idbNotes[k])

\* the save button: saveNoteOrLink(), whichever branch it takes
SaveCurrent ==
    \/ SaveNotInitialized \/ SaveEmpty
    \/ SaveNoteFlat \/ SaveNoteIdb
    \/ SaveLinkFlat \/ SaveLinkIdb
    \/ UpdateLinkFlat \/ UpdateLinkIdb

\* C19 as stated: when the open connection is unexpectedly closed, the flat
\* store is the backend from then on.
CloseSelectsFlat == [][DbClose => useLocalStorageFallback']_vars

\* C19, amended: when the open connection is unexpectedly closed the
\* backend selection stays as it was, the store is marked uninitialized,
\* a warning is shown and a page reload is scheduled; until the reload a
\* save-current request is rejected with an error and writes nothing.
CloseSchedulesReload ==
    [][/\ DbClose =>
             /\ useLocalStorageFallback' = useLocalStorageFallback
             /\ ~dbInitialized'
             /\ reloadTimer'
             /\ toast' = Toast("warning", "Conexion cerrada")
       /\ (db = "closed" /\ SaveCurrent) =>
             /\ toast' = Toast("danger", "Base de datos no inicializada")
             /\ UNCHANGED <<idbData, lsData, pending, selection>>
      ]_vars

\* the connection of the IndexedDB backend was closed with a Note open: the
\* warning is up and the reload is scheduled, the flat store not selected
ClosedWaitingForReload ==
    /\ db = "closed"
    /\ toast = Toast("warning", "Conexion cerrada")
    /\ currentNoteId # Null
    /\ reloadTimer
    /\ ~useLocalStorageFallback
    /\ ~dbInitialized

\* the saveLink calls whose lookup has answered and whose write has not
BetweenLookupAndWrite == {i \in 1..Len(pending) : pending[i].kind \in SaveLinkWrites}

\* C20: in IndexedDB the lookup by url and the write of saveLink are one
\* atomic unit: while a saveLink call is between its lookup and its write,
\* the only write to the links store is its own, and once its write is
\* done exactly one Link with its url is persisted.
SaveLinkAtomic ==
    [][/\ idbLinks' # idbLinks =>
             \A i \in BetweenLookupAndWrite : SaveLinkDoneAt(i)
       /\ \A i \in BetweenLookupAndWrite :
             SaveLinkDoneAt(i) =>
                Cardinality({k \in 1..Len(idbLinks') : idbLinks'[k].url = pending[i].text}) = 1
      ]_vars

\* two saveLink calls with the same url are in flight: the lookup of the
\* first has answered, its write has not, and the second waits
SecondSaveLinkWaits ==
    \E i, j \in 1..Len(pending) :
        /\ i < j
        /\ pending[i].kind \in SaveLinkWrites
        /\ pending[j].kind = "saveLink"
        /\ pending[j].text = pending[i].text

\* C21: from any stored schema the migration ends with the notes store and
\* its orderings title, updatedAt, reminder, and the links store and its
\* orderings url, createdAt, all present.
MigrationCompletesSchema ==
    idbVersion = DB_VERSION => (NotesSchema \cup LinksSchema) \subseteq idbStores

\* the ids of the Notes a step creates in a store
CreatedIds(old, new) == Ids(new) \ Ids(old)

\* C22: a Note id is never reused: once a Note with id i has been deleted,
\* no Note created later is given id i, in either backend.
NoteIdNeverReused ==
    [][/\ \A id \in CreatedIds(lsNotes, lsNotes') : <<"localStorage", id>> \notin deletedNoteIds
       /\ \A id \in CreatedIds(idbNotes, idbNotes') : <<"indexedDB", id>> \notin deletedNoteIds
      ]_vars

\* a store holds a record written at time t
WrittenAt(records, t) == \E k \in 1..Len(records) : records[k].updatedAt = t

\* C23: while the flat backend is active, a save-current request with a
\* non-empty title or content is served: it succeeds and creates or
\* updates a record in the flat Note or Link collection.
FlatSaveServed ==
    [][(useLocalStorageFallback /\ SaveCurrent /\ ~SaveEmpty) =>
          /\ toast' = Toast("success", "guardado")
          /\ WrittenAt(lsNotes', now) \/ WrittenAt(lsLinks', now)
      ]_vars

\* the calls of the backend contract: at is the position of the record whose
\* id the call carries, 0 for a saveNote without id; a position past the end
\* of the store stands for an id that is not present
ContractCalls ==
    [op : {"saveNote"}, at : 0..MaxCalls, url : {<<"1.1.1.1">>}]
        \cup [op : {"deleteNote"}, at : 1..MaxCalls, url : {<<"1.1.1.1">>}]
        \cup [op : {"saveLink"}, at : {0}, url : {<<"1.1.1.1">>, <<"a">>}]
        \cup [op : {"updateLink"}, at : 1..MaxCalls, url : {<<"1.1.1.1">>, <<"a">>}]

CallSeqs == UNION {[1..n -> ContractCalls] : n \in 0..MaxCalls}

IdAt(records, at) == IF at = 0 THEN Null ELSE IF at <= Len(records) THEN records[at].id ELSE 99

\* the title a call writes: its number in the sequence
CallTitle(n) == <<ToString(n)>>

\* saveLink and updateLink on the links object store, as one unit each
idbSaveLink(links, title, url, keyGen, t) ==
    LET req == saveLinkWrite(links, Request("saveLink", LINKS_STORE, Null, title, url, 0, 0, 0), t)
    IN IF req.kind = "saveLinkPut"
       THEN idbPut(links, linkOf(req))
       ELSE idbAdd(links, linkOf(req), keyGen)

idbUpdateLink(links, id, title, url, t) ==
    LET index == IndexOfId(links, id)
    IN IF index = 0 THEN links
       ELSE IF violatesUniqueUrl(links, updatedLink(links[index], title, url, t)) THEN links
       ELSE idbPut(links, updatedLink(links[index], title, url, t))

\* both backends after one more call; n counts the calls, and the flat
\* backend draws the fresh id 100 + n
BothAfter(st, call) ==
    LET n == st.n + 1
        title == CallTitle(n)
    IN IF call.op = "saveNote"
       THEN [st EXCEPT
               !.n = n,
               !.lsNotes = saveNoteToLocalStorage(@,
                              Note(IdAt(st.lsNotes, call.at), title, <<>>, 0, 0, now),
                              100 + n, now),
               !.idbNotes = IF call.at = 0
                            THEN idbAdd(@, Note(Null, title, <<>>, 0, now, now), st.noteKeyGen)
                            ELSE idbPut(@, Note(IdAt(st.idbNotes, call.at), title, <<>>,
                                                0, 0, now)),
               !.noteKeyGen = IF call.at = 0 THEN @ + 1
                              ELSE Max(@, IdAt(st.idbNotes, call.at))]
       ELSE IF call.op = "deleteNote"
       THEN [st EXCEPT
               !.n = n,
               !.lsNotes = deleteNoteFromLocalStorage(@, IdAt(st.lsNotes, call.at)),
               !.idbNotes = idbDelete(@, IdAt(st.idbNotes, call.at))]
       ELSE IF call.op = "saveLink"
       THEN [st EXCEPT
               !.n = n,
               !.lsLinks = saveLinkToLocalStorage(@,
                              Link(Null, title, formatURL(call.url), 0, now), 100 + n, now),
               !.idbLinks = idbSaveLink(@, title, formatURL(call.url), st.linkKeyGen, now),
               !.linkKeyGen = IF IndexOfUrl(st.idbLinks, formatURL(call.url)) # 0
                              THEN @ ELSE @ + 1]
       ELSE [st EXCEPT
               !.n = n,
               !.lsLinks = updateLinkInLocalStorage(@, IdAt(st.lsLinks, call.at),
                                                    title, call.url, now),
               !.idbLinks = idbUpdateLink(@, IdAt(st.idbLinks, call.at),
                                          title, call.url, now)]

RECURSIVE BothAfterAll(_, _)
BothAfterAll(st, calls) ==
    IF calls = <<>> THEN st
    ELSE BothAfterAll(BothAfter(st, Head(calls)), Tail(calls))

EmptyStores ==
    [n |-> 0, lsNotes |-> <<>>, idbNotes |-> <<>>, noteKeyGen |-> 0,
     lsLinks |-> <<>>, idbLinks |-> <<>>, linkKeyGen |-> 0]

\* a collection without its concrete ids and timestamps
NoteShape(notes) == [k \in 1..Len(notes) |-> <<notes[k].title, notes[k].content>>]
LinkShape(links) == [k \in 1..Len(links) |-> <<links[k].title, links[k].url>>]

\* C24: for every sequence of saveNote (with or without an id, including an
\* id not present), deleteNote, saveLink and updateLink calls applied to
\* both backends from empty stores, the two persisted collections are
\* equal up to the concrete id and timestamp values.
BackendsAgree ==
    profile = "order" =>
        \A calls \in CallSeqs :
            LET st == BothAfterAll(EmptyStores, calls)
            IN /\ NoteShape(st.lsNotes) = NoteShape(st.idbNotes)
               /\ LinkShape(st.lsLinks) = LinkShape(st.idbLinks)

\* C25: from a version-change or close signal until the reload, no
\* operation opens a transaction on the closed connection.  db.transaction
\* on a closed connection throws, and nothing catches it: uncaught records
\* exactly these calls.
NoTransactionOnClosedDb == ~uncaught

\* a reminder strictly in the future and within the next 60 seconds of t
InWindow(note, t) == note.reminder # 0 /\ t < note.reminder /\ note.reminder <= t + 1

\* a scan of notes notifies exactly the Notes in the window; the toast
\* changes only when there is one
NotifiesExactlyDue(notes) ==
    /\ dueReminders(notes, now) = {i \in 1..Len(notes) : InWindow(notes[i], now)}
    /\ toast' = IF \E i \in 1..Len(notes) : InWindow(notes[i], now)
                THEN Toast("info", "Recordatorio") ELSE toast

\* checkReminders() with the flat backend: from the timer, or at startup
FlatScan ==
    \/ ScanTick /\ useLocalStorageFallback
    \/ ~resolved /\ resolved' /\ useLocalStorageFallback'

\* C26: in each scan at time now, in either backend, the scanner notifies
\* for exactly the Notes whose reminder r satisfies now < r <= now + 60 s.
ScanNotifiesWindow ==
    [][/\ CheckRemindersDone => NotifiesExactlyDue(idbNotes)
       /\ FlatScan => NotifiesExactlyDue(lsNotes)
      ]_vars

\* a scan of the notes object store has notified for a Note in the window
ReminderNotified ==
    /\ profile = "remind"
    /\ db = "open"
    /\ toast = Toast("info", "Recordatorio")
    /\ \E i \in 1..Len(idbNotes) : InWindow(idbNotes[i], now)

\* a record with both timestamps set
Stamped(note) == note.createdAt # 0 /\ note.updatedAt # 0

\* C27: every Note an import persists is stored with both createdAt and
\* updatedAt set, with or without a note open, in either backend: the Notes
\* the flat import writes, and the records the IndexedDB import hands to
\* objectStore.put / objectStore.add, carry both.
ImportStampsNotes ==
    [][\A content \in ImportFiles :
         /\ ImportNotesFlatOf(content) =>
               \A i \in 1..Len(lsNotes') :
                   (i > Len(lsNotes) \/ lsNotes'[i] # lsNotes[i]) => Stamped(lsNotes'[i])
         /\ \A reminder \in ReminderInputs :
               ImportNotesIdbOf(content, reminder) =>
                   \A i \in (Len(pending) + 1)..Len(pending') :
                       Stamped(noteOf(pending'[i]))
      ]_vars

\* a file that contains no well-formed note section
Malformed(content) == importedPairs(content) = <<>>

\* C28: importing a malformed file aborts: the persisted Notes and the
\* selection are unchanged, no write is requested, and the user is shown a
\* failure, not a success.
MalformedImportAborts ==
    [][\A content \in ImportFiles :
         Malformed(content) =>
            \A reminder \in ReminderInputs :
               (ImportNotesFlatOf(content) \/ ImportNotesIdbOf(content, reminder)) =>
                  /\ UNCHANGED <<lsNotes, idbNotes, pending, selection>>
                  /\ toast' \in {Toast("danger", "Error al importar notas"),
                                 Toast("warning", "Error al importar notas")}
      ]_vars

\* a save or delete request is issued on the indexed backend
IssuesWrite == SaveNoteIdb \/ SaveLinkIdb \/ UpdateLinkIdb \/ DeleteItemIdb

\* the error callback of a save or delete request runs: a failed request,
\* or a write the unique index on url rejects
WriteFails ==
    \/ RequestError
    \/ \E i \in 1..Len(pending) :
          /\ SaveLinkDoneAt(i)
          /\ violatesUniqueUrl(idbLinks, linkOf(pending[i]))
    \/ /\ UpdateLinkDone
       /\ idbLinks' = idbLinks
       /\ toast' = Toast("danger", "Error al actualizar el enlace")

\* C29: when a save or delete request on the indexed backend fails, the
\* selection is as it was before the request was issued and the persisted
\* collections are unchanged: neither issuing the request nor its error
\* callback changes currentNoteId, currentLinkId or a stored record.
FailedWriteChangesNothing ==
    [][(IssuesWrite \/ WriteFails) => UNCHANGED <<selection, idbData, lsData>>]_vars

\* a save of the open note has failed: the note is still open
SaveFailedNoteStillOpen ==
    /\ profile = "session"
    /\ dbInitialized /\ ~useLocalStorageFallback /\ db = "open"
    /\ pending = <<>>
    /\ toast = Toast("danger", "Error al guardar la nota")
    /\ currentNoteId # Null

\* after is before with the first Link of this id given the title, the
\* formatted url and updatedAt t, its id and createdAt kept, and every other
\* Link as it was; with no Link of this id, after is before
UpdatesLink(before, after, id, title, url, t) ==
    LET index == IndexOfId(before, id)
    IN IF index = 0 THEN after = before
       ELSE /\ Len(after) = Len(before)
            /\ \A k \in 1..Len(before) :
                 IF k = index
                 THEN /\ after[k].id = before[k].id
                      /\ after[k].createdAt = before[k].createdAt
                      /\ after[k].title = title
                      /\ after[k].url = formatURL(url)
                      /\ after[k].updatedAt = t
                 ELSE after[k] = before[k]

\* another Link already holds the formatted url
UrlTaken(links, id, url) ==
    \E j \in 1..Len(links) : links[j].id # id /\ links[j].url = formatURL(url)

\* an id no Link of links has
AbsentId(links) == CHOOSE n \in 1..(Len(links) + 1) : IndexOfId(links, n) = 0

\* updateLink in the flat store, for the open Link and some form input; the
\* flat store never loses the open Link, so the array updateLink would write
\* for an id that is not present is computed beside it
FlatUpdateLinkEffect ==
    /\ \E input \in FormInputs :
          UpdatesLink(lsLinks, lsLinks', currentLinkId, trim(input[1]), trim(input[2]), now)
    /\ IndexOfId(lsLinks, currentLinkId) = 0 => UNCHANGED selection
    /\ \A input \in FormInputs :
          updateLinkInLocalStorage(lsLinks, AbsentId(lsLinks), trim(input[1]),
                                   trim(input[2]), now) = lsLinks

\* C30 as stated: in either backend updateLink(id, title, url) on an existing
\* Link keeps its id and createdAt, sets its title, its url to formatURL(url)
\* and its updatedAt, and leaves every other Link unchanged; on an id that
\* is not present it changes neither the Links nor the selection.
UpdateLinkSetsFields ==
    [][/\ UpdateLinkFlat => FlatUpdateLinkEffect
       /\ UpdateLinkDone =>
             \E i \in 1..Len(pending) :
                /\ Runnable(i, "updateLink")
                /\ UpdatesLink(idbLinks, idbLinks', pending[i].id, pending[i].title,
                               pending[i].text, now)
                /\ IndexOfId(idbLinks, pending[i].id) = 0 => UNCHANGED selection
      ]_vars

\* C30, amended: as stated, except that in the indexed backend, when another
\* Link already holds formatURL(url), the write is rejected: an error is
\* shown and the Links and the selection are unchanged.
UpdateLinkSetsFieldsUnlessUrlTaken ==
    [][/\ UpdateLinkFlat => FlatUpdateLinkEffect
       /\ UpdateLinkDone =>
             \E i \in 1..Len(pending) :
                /\ Runnable(i, "updateLink")
                /\ IF /\ IndexOfId(idbLinks, pending[i].id) # 0
                      /\ UrlTaken(idbLinks, pending[i].id, pending[i].text)
                   THEN /\ UNCHANGED <<idbLinks, selection>>
                        /\ toast' = Toast("danger", "Error al actualizar el enlace")
                   ELSE /\ UpdatesLink(idbLinks, idbLinks', pending[i].id,
                                       pending[i].title, pending[i].text, now)
                        /\ IndexOfId(idbLinks, pending[i].id) = 0 => UNCHANGED selection
      ]_vars

\* a Link in the object store has been updated: only updateLink stores an
\* empty title (saveLink stores a default), and it did so after the Link
\* was created
LinkUpdatedInIdb ==
    \E k \in 1..Len(idbLinks) :
        /\ idbLinks[k].title = <<>>
        /\ idbLinks[k].createdAt < idbLinks[k].updatedAt
        /\ HasScheme(idbLinks[k].url)

\* the reminder of the note is not past due now
NotPastDue(note) == note.reminder = 0 \/ note.reminder > now

\* C31: among the Notes that have no past-due reminder, the rendered list is
\* ordered by updatedAt descending, in either backend: such a Note never
\* appears after one with a strictly smaller updatedAt.
RemainingByUpdatedAtDesc ==
    \A i, j \in 1..Len(notesListEl) :
        (i < j /\ NotPastDue(notesListEl[i]) /\ NotPastDue(notesListEl[j])) =>
            notesListEl[i].updatedAt >= notesListEl[j].updatedAt

\* two Notes without a past-due reminder are rendered newest first, against
\* the order of the object store
NotesListedNewestFirst ==
    /\ ~useLocalStorageFallback
    /\ Len(idbNotes) = 2 /\ Len(notesListEl) = 2
    /\ idbNotes[1].updatedAt < idbNotes[2].updatedAt
    /\ notesListEl = <<idbNotes[2], idbNotes[1]>>
    /\ NotPastDue(idbNotes[1]) /\ NotPastDue(idbNotes[2])

\* after is before without its first record of this id (before itself when
\* no record has the id)
RemovesOne(before, after, id) ==
    LET index == IndexOfId(before, id)
    IN after = IF index = 0 THEN before ELSE Remove(before, index)

\* C32: in either backend a successful delete of the open Note removes
\* exactly the record with that id, leaves every other Note and every Link
\* unchanged, and clears the selection.
DeleteRemovesOneNote ==
    [][/\ DeleteNoteFlat =>
             /\ RemovesOne(lsNotes, lsNotes', currentNoteId)
             /\ UNCHANGED <<lsLinks, idbNotes, idbLinks>>
             /\ currentNoteId' = Null /\ currentLinkId' = Null
       /\ \A i \in 1..Len(pending) :
             (DeleteItemDoneAt(i) /\ pending[i].store = NOTES_STORE) =>
                /\ RemovesOne(idbNotes, idbNotes', pending[i].id)
                /\ UNCHANGED <<idbLinks, lsNotes, lsLinks>>
                /\ currentNoteId' = Null /\ currentLinkId' = Null
      ]_vars

\* C33: under every ordering of the open request's events, dbInitialized
\* and useLocalStorageFallback are never both true: one backend is active.
OneActiveBackend == ~(dbInitialized /\ useLocalStorageFallback)

\* C34: at every time of the session at most one periodic reminder timer
\* is registered, however many scans have run.
AtMostOneTimer == intervals <= 1

\* a save of a new note is in flight: its add has not answered yet
NewNoteSaveInFlight == \E i \in 1..Len(pending) : pending[i].kind = "saveNoteAdd"

\* C35: on the indexed backend, of two save-current requests for the same
\* new note, the second issued before the success callback of the first,
\* the second does not add a second record: while the add of the first is
\* in flight, a save issues no other add.
SecondSaveAddsNothing ==
    [][(SaveNoteIdb /\ NewNoteSaveInFlight /\ Len(pending') > Len(pending)) =>
          pending'[Len(pending')].kind # "saveNoteAdd"
      ]_vars

\* C36: after createNewNote has cleared the selection, the success callback
\* of a save issued before it never sets currentNoteId.  A put is issued
\* only with a note open, so a put that answers with nothing open was
\* issued before the selection was last cleared.
StaleSaveLeavesFormClear ==
    [][(SaveNotePutDone /\ currentNoteId = Null /\ currentLinkId = Null) =>
          currentNoteId' = Null
      ]_vars

\* C37: importing a file with N well-formed note sections adds exactly N
\* new Notes and leaves every Note persisted before unchanged, in either
\* backend, with or without a note open.  The flat import writes at once;
\* the import into an open IndexedDB connection queues one request per
\* section, each of which must be an add for the count to grow by N.
ImportAddsEverySection ==
    [][\A content \in ImportFiles :
         LET N == Len(importedPairs(content))
         IN /\ ImportNotesFlatOf(content) =>
                  /\ Len(lsNotes') = Len(lsNotes) + N
                  /\ SubSeq(lsNotes', 1, Len(lsNotes)) = lsNotes
            /\ \A reminder \in ReminderInputs :
                  (ImportNotesIdbOf(content, reminder) /\ db = "open") =>
                     /\ Len(pending') = Len(pending) + N
                     /\ \A i \in (Len(pending) + 1)..Len(pending') :
                           pending'[i].kind = "saveNoteAdd"
                     /\ UNCHANGED idbNotes
      ]_vars

\* a handler of the user interface or of the reminder timer runs
StorageOperation ==
    \/ CreateNewNote \/ SaveCurrent \/ DeleteCurrent \/ DeleteNothing
    \/ Search \/ LoadNoteFlat \/ LoadNoteIdb \/ EditLinkFlat \/ EditLinkIdb
    \/ ExportNotesFlat \/ ExportNotesIdb \/ ImportNotesFlat \/ ImportNotesIdb
    \/ ScanTick

\* C38: no storage operation is issued before initDB's promise has resolved
\* with a backend selected.  Until then no handler runs, no request is in
\* flight, no timer is registered, and no step lists, writes or exports;
\* the step that resolves selects a backend.
NoOperationBeforeInit ==
    [][~resolved =>
          /\ ~StorageOperation
          /\ pending = <<>> /\ intervals = 0
          /\ ~resolved' => UNCHANGED <<pending, lsData, view, exportFile, intervals>>
          /\ resolved' => (useLocalStorageFallback' \/ dbInitialized')
      ]_vars

\* initialization has just selected IndexedDB after a reload: the first
\* list and scan requests are queued and the first timer is registered
FirstCallsAfterInit ==
    /\ reloads > 0
    /\ resolved /\ dbInitialized /\ ~useLocalStorageFallback
    /\ Len(pending) = 3
    /\ pending[3].kind = "checkReminders"
    /\ intervals = 1

====
